---- MODULE Spec2Model ----
(***************************************************************************)
(* Datagent backend: the transformation orchestrator                       *)
(* (data_agent/dataset_orchestrator.py) and the block pipeline executor    *)
(* (pipeline_executor.py).                                                 *)
(*                                                                         *)
(* A dataset is a value [kind, rows, cols]; text (prompts, scripts, error  *)
(* messages) is kept as tagged values.  The text-generation backend, the   *)
(* executed script and the file system are the environment: each attempt   *)
(* draws the backend's answer and the outcome of file writes from small    *)
(* sets.                                                                   *)
(***************************************************************************)
EXTENDS Integers, Sequences, FiniteSets, TLC

\* ------------------------------------------------------------------ bounds
MaxRetry == 2      \* largest max_retry_attempts a direct caller constructs
MaxCalls == 1      \* orchestrate_transformation calls in one direct session
SrcRows == 10      \* rows of the file x.csv
SrcCols == 3       \* columns of the file x.csv
DropN == 2         \* rows removed by the row-dropping script

\* ------------------------------------------------------- program constants
DefaultMaxRetry == 2

\* ---------------------------------------------------------------- datasets
NoData == [kind |-> "none", rows |-> 0, cols |-> 0]
NotFrame == [kind |-> "notframe", rows |-> 0, cols |-> 0]
Frame(r, c) == [kind |-> "frame", rows |-> r, cols |-> c]
IsFrame(d) == d.kind = "frame"

\* ------------------------------------------------- scripts and the capsule
\* Script texts the backend can return.  "" is the empty script.
Codes == {"", "bad_syntax", "fault", "drop_rows", "add_col", "not_frame"}

\* compile(code, '<string>', 'exec')
Compiles(code) == code # "bad_syntax"

\* exec(code, exec_globals); exec_globals['df'] afterwards
RunScript(code, df) ==
  CASE code = "bad_syntax" -> [raised |-> TRUE, msg |-> "Code execution failed: SyntaxError", df |-> df]
    [] code = "fault"      -> [raised |-> TRUE, msg |-> "Code execution failed: KeyError", df |-> df]
    [] code = "drop_rows"  -> [raised |-> FALSE, msg |-> "",
                               df |-> Frame(IF df.rows >= DropN THEN df.rows - DropN ELSE 0, df.cols)]
    [] code = "add_col"    -> [raised |-> FALSE, msg |-> "", df |-> Frame(df.rows, df.cols + 1)]
    [] code = "not_frame"  -> [raised |-> FALSE, msg |-> "", df |-> NotFrame]
    [] OTHER               -> [raised |-> FALSE, msg |-> "", df |-> df]

\* ------------------------------------------------------ gateway responses
Response(k, c, s, l) ==
  [kind |-> k, code |-> c, save_result |-> s, lib_missing |-> l]

\* What call_api can do: return {"error": ...}, raise, return a parsed
\* recommendation, or return text that json.loads rejects, wrapped as
\* {"explanation": text}: "unparsed" when the text holds no JSON object,
\* "embedded" when it holds a recommendation (fenced or between braces).
GatewayResponses ==
  {Response("error", "", FALSE, FALSE),
   Response("raise", "", FALSE, FALSE),
   Response("unparsed", "", FALSE, FALSE),
   Response("embedded", "drop_rows", FALSE, FALSE),
   Response("rec", "drop_rows", FALSE, TRUE),
   Response("rec", "drop_rows", TRUE, FALSE)}
  \cup {Response("rec", c, FALSE, FALSE) : c \in Codes}

\* _clean_ai_response: the JSON object found in the explanation text, if one
\* parses; otherwise the response as it is
_clean_ai_response(ai_response) ==
  IF ai_response.kind = "embedded" THEN [ai_response EXCEPT !.kind = "rec"]
  ELSE ai_response

\* ------------------------------------------------------------------ results
ErrorDict(msg) ==
  [has_error |-> TRUE, error |-> msg, code_generated |-> "",
   exec_status |-> "absent", exec_error |-> "", attempt |-> 0]

ExecResult(code, status, err, att) ==
  [has_error |-> FALSE, error |-> "", code_generated |-> code,
   exec_status |-> status, exec_error |-> err, attempt |-> att]

\* "if self.script_only_mode:" in _execute_transformation
SkipExecution_never(script_only) == FALSE
SkipExecution(script_only) == script_only

\* _execute_transformation: the result it returns and the value it leaves
\* in self.data
_execute_transformation(ai_response, dat, script_only, att, saveOk) ==
  LET code == IF ai_response.kind = "rec" THEN ai_response.code ELSE ""
      run == RunScript(code, dat)
  IN
  IF code = ""
  THEN [result |-> ExecResult(code, "error", "No code generated by AI", att + 1), data |-> dat]
  ELSE IF SkipExecution(script_only)
  THEN IF Compiles(code)
       THEN [result |-> ExecResult(code, "success", "", att + 1), data |-> dat]
       ELSE [result |-> ExecResult(code, "error", "Code syntax error", att + 1), data |-> dat]
  ELSE IF ~IsFrame(dat)
  THEN [result |-> ExecResult(code, "error", "Code execution failed: AttributeError", att + 1), data |-> dat]
  ELSE IF ai_response.lib_missing
  THEN [result |-> ExecResult(code, "error", "Library not installed", att + 1), data |-> dat]
  ELSE IF run.raised
  THEN [result |-> ExecResult(code, "error", run.msg, att + 1), data |-> dat]
  ELSE IF ~IsFrame(run.df)
  THEN [result |-> ExecResult(code, "error", "Code execution failed: AttributeError", att + 1), data |-> run.df]
  ELSE IF ai_response.save_result /\ ~saveOk
  THEN [result |-> ExecResult(code, "error", "Code execution failed: OSError", att + 1), data |-> run.df]
  ELSE [result |-> ExecResult(code, "success", "", att + 1), data |-> run.df]

\* ------------------------------------------------------------------ prompts
Unbound == [kind |-> "unbound", request |-> "", failed_code |-> "", error_message |-> "", context |-> NoData]

_create_orchestration_prompt(user_prompt, dat) ==
  [kind |-> "initial", request |-> user_prompt, failed_code |-> "", error_message |-> "", context |-> dat]

_create_error_recovery_prompt(original_prompt, failed_code, error_message, dat) ==
  [kind |-> "recovery", request |-> original_prompt, failed_code |-> failed_code,
   error_message |-> error_message, context |-> dat]

\* ---------------------------------------------------------- history records
StepRecord(p, rec, res, n, so, fs) ==
  [prompt |-> p, ai_recommendation |-> rec, result |-> res, attempts |-> n,
   script_only |-> so, final_status |-> fs]

\* ------------------------------------------------------------------- state
VARIABLES
  \* DatasetOrchestrator
  data,                    \* self.data
  transformation_history,  \* self.transformation_history
  max_retry_attempts,      \* self.max_retry_attempts
  script_only_mode,        \* self.script_only_mode
  configured,              \* self.ai_provider and self.ai_provider.is_configured()
  \* one orchestrate_transformation call
  opc,                     \* "idle", "attempt" (in the retry loop), "returned"
  attempt,                 \* the loop index
  oprompt,                 \* the prompt argument
  orchestration_prompt,    \* the local of that name
  cleaned_response,        \* the local of that name, as of the last iteration
  oresult,                 \* the value returned
  \* observation of the call in progress
  genCalls,                \* call_api invocations made by this call
  attemptLog,              \* what each loop iteration of this call did
  callData,                \* self.data when the call started
  callHist,                \* len(self.transformation_history) when it started
  goodData,                \* self.data after the last step reported as success
  calls                    \* calls made by the direct caller

ovars == <<data, transformation_history, max_retry_attempts, script_only_mode,
           configured, opc, attempt, oprompt, orchestration_prompt,
           cleaned_response, oresult,
           genCalls, attemptLog, callData, callHist, goodData, calls>>

\* PipelineExecutor
VARIABLES
  pc,                  \* position in execute_pipeline
  blocks_json,         \* the argument of execute_pipeline
  block_map,           \* self.block_map
  pipeline_sources,    \* self.pipeline_sources
  execution_history,   \* self.execution_history
  destination_blocks,  \* the destination blocks, in submission order
  results,             \* the local list "results"
  dest_index,          \* position of "for dest_block in destination_blocks"
  dest_id,             \* dest_id of the destination being run
  execution_order,     \* the local of that name
  pos,                 \* position of "for block_id in execution_order"
  current_data,        \* the local of that name
  executed_steps,      \* the local of that name
  final_cleaned_file,  \* the local of that name: is it bound
  ret,                 \* the value execute_pipeline returns
  \* observation of the run
  executed,            \* <<destination, block>> pairs dispatched so far
  effects,             \* files written and messages sent so far
  totalGen,            \* call_api invocations of completed transform steps
  dataOwner            \* the destination whose run loaded self.orchestrator.data

pvars == <<pc, blocks_json, block_map, pipeline_sources, execution_history,
           destination_blocks, results, dest_index, dest_id, execution_order,
           pos, current_data, executed_steps, final_cleaned_file, ret,
           executed, effects, totalGen, dataOwner>>

vars == <<ovars, pvars>>

NoResult == ErrorDict("")

\* What one loop iteration did: its outcome and whether it reached call_api
LogEntry(o, called) == [outcome |-> o, called |-> called]

NoResponse == Response("none", "", FALSE, FALSE)

\* "elif attempt < self.max_retry_attempts:"
RetriesLeft_one_short(att, maxr) == att + 1 < maxr
RetriesLeft(att, maxr) == att < maxr

\* "elif result.get("execution_result", {}).get("status") == "success":"
ExecutionSucceeded_never(res) == FALSE
ExecutionSucceeded(res) == res.exec_status = "success"

\* "attempts": attempt + 1
AttemptsMade(att) == att + 1

\* ------------------------------------------- orchestrate_transformation
\* Entry of the call: the two guards before the retry loop.
OrchestrateEnter_unconfigured_runs(p) ==
  /\ oprompt' = p
  /\ genCalls' = 0
  /\ attemptLog' = <<>>
  /\ callData' = data
  /\ callHist' = Len(transformation_history)
  /\ attempt' = 0
  /\ orchestration_prompt' = Unbound
  /\ cleaned_response' = NoResponse
  /\ IF data = NoData
     THEN opc' = "returned" /\ oresult' = ErrorDict("No dataset loaded")
     ELSE opc' = "attempt" /\ oresult' = NoResult
  /\ UNCHANGED <<data, transformation_history, max_retry_attempts,
                 script_only_mode, configured, goodData>>

OrchestrateEnter(p) ==
  /\ oprompt' = p
  /\ genCalls' = 0
  /\ attemptLog' = <<>>
  /\ callData' = data
  /\ callHist' = Len(transformation_history)
  /\ attempt' = 0
  /\ orchestration_prompt' = Unbound
  /\ cleaned_response' = NoResponse
  /\ IF data = NoData
     THEN opc' = "returned" /\ oresult' = ErrorDict("No dataset loaded")
     ELSE IF ~configured
     THEN opc' = "returned" /\ oresult' = ErrorDict("AI provider not configured")
     ELSE opc' = "attempt" /\ oresult' = NoResult
  /\ UNCHANGED <<data, transformation_history, max_retry_attempts,
                 script_only_mode, configured, goodData>>

\* The handler of "except Exception" in the loop body.
ExceptBranch_one_more(entry) ==
  /\ attemptLog' = Append(attemptLog, entry)
  /\ IF attempt <= max_retry_attempts
     THEN /\ attempt' = attempt + 1
          /\ UNCHANGED <<opc, oresult>>
     ELSE /\ opc' = "returned"
          /\ oresult' = ErrorDict("Orchestration failed after all attempts")
          /\ UNCHANGED attempt

ExceptBranch(entry) ==
  /\ attemptLog' = Append(attemptLog, entry)
  /\ IF attempt < max_retry_attempts
     THEN /\ attempt' = attempt + 1
          /\ UNCHANGED <<opc, oresult>>
     ELSE /\ opc' = "returned"
          /\ oresult' = ErrorDict("Orchestration failed after all attempts")
          /\ UNCHANGED attempt

\* Falling out of an iteration without return: the next iteration, or the
\* statement after the loop.
NextIteration ==
  IF attempt < max_retry_attempts
  THEN attempt' = attempt + 1 /\ UNCHANGED <<opc, oresult>>
  ELSE /\ opc' = "returned"
       /\ oresult' = ErrorDict("Maximum retry attempts exceeded")
       /\ UNCHANGED attempt

Return_never_returns(res) ==
  opc' = "hung" /\ oresult' = res /\ UNCHANGED attempt

Return(res) ==
  opc' = "returned" /\ oresult' = res /\ UNCHANGED attempt

Outcome(res) ==
  IF res.code_generated = "" THEN "no_code"
  ELSE IF res.exec_status = "success" THEN "success" ELSE "script_fault"

\* One iteration of the retry loop (lines 82-155).
Attempt(resp, saveOk) ==
  /\ opc = "attempt"
  /\ LET promptRaises == attempt = 0 /\ ~IsFrame(data)
         prompt0 == IF attempt = 0 /\ ~promptRaises
                    THEN _create_orchestration_prompt(oprompt, data)
                    ELSE orchestration_prompt
         called == ~promptRaises /\ prompt0.kind # "unbound"
         cleaned == _clean_ai_response(resp)
         ex == _execute_transformation(cleaned, data, script_only_mode, attempt, saveOk)
         res == ex.result
         entry == LogEntry(Outcome(res), TRUE)
     IN
     /\ genCalls' = IF called THEN genCalls + 1 ELSE genCalls
     /\ cleaned_response' = IF called /\ resp.kind \notin {"raise", "error"}
                             THEN cleaned ELSE cleaned_response
     /\ IF ~called
        THEN /\ ExceptBranch(LogEntry("prompt_exception", FALSE))
             /\ orchestration_prompt' = prompt0
             /\ UNCHANGED <<data, transformation_history, goodData>>
        ELSE IF resp.kind = "raise"
        THEN /\ ExceptBranch(LogEntry("gw_raise", TRUE))
             /\ orchestration_prompt' = prompt0
             /\ UNCHANGED <<data, transformation_history, goodData>>
        ELSE IF resp.kind = "error"
        THEN /\ attemptLog' = Append(attemptLog, LogEntry("gw_error", TRUE))
             /\ Return(ErrorDict("API call failed"))
             /\ orchestration_prompt' = prompt0
             /\ UNCHANGED <<data, transformation_history, goodData>>
        ELSE
          /\ data' = ex.data
          /\ IF script_only_mode
             THEN IF res.code_generated # ""
                  THEN /\ transformation_history' = Append(transformation_history,
                            StepRecord(oprompt, cleaned, res, AttemptsMade(attempt), TRUE, "absent"))
                       /\ attemptLog' = Append(attemptLog, entry)
                       /\ Return(res)
                       /\ orchestration_prompt' = prompt0
                       /\ goodData' = IF res.exec_status = "success" THEN ex.data ELSE goodData
                  ELSE /\ attemptLog' = Append(attemptLog, entry)
                       /\ NextIteration
                       /\ orchestration_prompt' = prompt0
                       /\ UNCHANGED <<transformation_history, goodData>>
             ELSE IF ExecutionSucceeded(res)
             THEN /\ transformation_history' = Append(transformation_history,
                       StepRecord(oprompt, cleaned, res, AttemptsMade(attempt), FALSE, "absent"))
                  /\ attemptLog' = Append(attemptLog, entry)
                  /\ Return(res)
                  /\ orchestration_prompt' = prompt0
                  /\ goodData' = ex.data
             ELSE IF RetriesLeft(attempt, max_retry_attempts)
             THEN IF IsFrame(ex.data)
                  THEN /\ orchestration_prompt' =
                            _create_error_recovery_prompt(oprompt, res.code_generated,
                                                          res.exec_error, ex.data)
                       /\ attemptLog' = Append(attemptLog, entry)
                       /\ attempt' = attempt + 1
                       /\ UNCHANGED <<opc, oresult, transformation_history, goodData>>
                  ELSE /\ ExceptBranch(entry)
                       /\ orchestration_prompt' = prompt0
                       /\ UNCHANGED <<transformation_history, goodData>>
             ELSE /\ transformation_history' = Append(transformation_history,
                       StepRecord(oprompt, cleaned, res, AttemptsMade(attempt), FALSE, "failed"))
                  /\ attemptLog' = Append(attemptLog, entry)
                  /\ Return(res)
                  /\ orchestration_prompt' = prompt0
                  /\ UNCHANGED goodData
  /\ UNCHANGED <<max_retry_attempts, script_only_mode, configured, oprompt,
                 callData, callHist, calls>>
  /\ UNCHANGED pvars

\* ------------------------------------------------------------------- files
Files == {"x.csv", "y.csv"}

\* pd.read_csv(file_path)
ReadFile(f) == IF f = "x.csv" THEN Frame(SrcRows, SrcCols) ELSE Frame(SrcRows + 1, SrcCols + 1)

\* A prompt handed to orchestrate_transformation without context lines
RawPrompt(p) == [kind |-> "raw", steps |-> <<>>, sources |-> <<>>, request |-> p]

\* ================================================== pipeline submissions
\* A block of a submission.  keys is the set of keys the dict has; a key the
\* dict lacks reads as the default block.get gives ("" or []).
Block(id, type, pre) ==
  [keys |-> {"block_id", "block_type"}, block_id |-> id, block_type |-> type,
   pre_req |-> pre, prompt |-> "", csv_source |-> "", output_source |-> "",
   output_data |-> "", email_dest |-> ""]

Src(id, f) == [Block(id, "input_source", <<>>) EXCEPT !.csv_source = f]
Proc(id, pre, p) == [Block(id, "process", pre) EXCEPT !.prompt = p]
Out(id, pre) == [Block(id, "output", pre) EXCEPT !.output_source = "email",
                                                  !.output_data = "user@example.com"]
Dest(id, pre) == Block(id, "destination", pre)
DestMail(id, pre) == [Block(id, "destination", pre) EXCEPT !.email_dest = "user@example.com"]

List(bs) == [format |-> "list", blocks |-> bs]

\* The submissions execute_pipeline is given in this model.
Submissions == {
  \* source -> transform -> destination
  List(<<Src(1, "x.csv"), Proc(2, <<1>>, "drop null rows"), Dest(3, <<2>>)>>),
  \* test_pipeline.py: two transforms, destination with email_dest
  List(<<Src(1, "x.csv"), Proc(2, <<1>>, "clean missing values"),
         Proc(3, <<2>>, "moving averages"), DestMail(4, <<3>>)>>),
  \* a chain with an output block
  List(<<Src(1, "x.csv"), Proc(2, <<1>>, "drop null rows"), Out(3, <<2>>), Dest(4, <<3>>)>>),
  \* two destinations over one source
  List(<<Src(1, "x.csv"), Proc(2, <<1>>, "drop null rows"), Out(3, <<2>>), Dest(4, <<3>>),
         Proc(5, <<1>>, "add a column"), Out(6, <<5>>), Dest(7, <<6>>)>>),
  \* A requires B and B requires A, under the only destination
  List(<<Src(1, "x.csv"), Proc(2, <<1, 3>>, "drop null rows"), Proc(3, <<2>>, "add a column"),
         Dest(4, <<3>>)>>),
  \* a cycle under the second destination only
  List(<<Src(1, "x.csv"), Proc(2, <<1>>, "drop null rows"), Out(3, <<2>>), Dest(4, <<3>>),
         Proc(5, <<6>>, "add a column"), Proc(6, <<5>>, "drop null rows"), Dest(7, <<6>>)>>),
  \* a cycle among blocks no destination requires
  List(<<Src(1, "x.csv"), Out(2, <<1>>), Dest(3, <<2>>),
         Proc(5, <<6>>, "add a column"), Proc(6, <<5>>, "drop null rows")>>),
  \* a prerequisite that is not in the submission, under the only destination
  List(<<Src(1, "x.csv"), Proc(2, <<1, 9>>, "drop null rows"), Dest(3, <<2>>)>>),
  \* ... under the second destination only
  List(<<Src(1, "x.csv"), Proc(2, <<1>>, "drop null rows"), Out(3, <<2>>), Dest(4, <<3>>),
         Dest(5, <<9>>)>>),
  \* ... in a block no destination requires
  List(<<Src(1, "x.csv"), Out(2, <<1>>), Dest(3, <<2>>), Proc(4, <<9>>, "add a column")>>),
  \* a transform without a source under the second destination
  List(<<Src(1, "x.csv"), Proc(2, <<>>, "drop null rows"), Out(3, <<1, 2>>), Dest(4, <<3>>),
         Out(5, <<2>>), Dest(6, <<5>>)>>),
  \* no destination
  List(<<Src(1, "x.csv"), Proc(2, <<1>>, "drop null rows")>>),
  \* no destination, the chain ends at an output block
  List(<<Src(1, "x.csv"), Proc(2, <<1>>, "drop null rows"), Out(3, <<2>>)>>),
  \* a prerequisite listed twice, an empty prompt
  List(<<Src(1, "x.csv"), Proc(2, <<1, 1>>, ""), Out(3, <<2, 2>>), Dest(4, <<3>>)>>),
  \* two sources and a visualization block
  List(<<Src(1, "x.csv"), Src(2, "y.csv"), Proc(3, <<1, 2>>, "drop null rows"),
         Out(4, <<3>>), Block(5, "visualization", <<4>>), Dest(6, <<5>>)>>),
  \* a source that no destination requires
  List(<<Src(1, "x.csv"), Out(2, <<1>>), Dest(3, <<2>>), Src(4, "y.csv")>>),
  \* a transform whose prompt is blanks only, before another transform
  List(<<Src(1, "x.csv"), Proc(2, <<1>>, "   "), Proc(3, <<2>>, "drop null rows"),
         Out(4, <<3>>), Dest(5, <<4>>)>>),
  \* a second source that requires the transform before it
  List(<<Src(1, "x.csv"), Proc(2, <<1>>, "drop null rows"),
         [Src(3, "y.csv") EXCEPT !.pre_req = <<2>>], Out(4, <<3>>), Dest(5, <<4>>)>>),
  \* an output block before any dataset
  List(<<Out(1, <<>>), Dest(2, <<1>>)>>),
  \* malformed submissions
  [format |-> "other", blocks |-> <<>>],
  [format |-> "dict", blocks |-> <<Src(1, "x.csv"), [Dest(2, <<1>>) EXCEPT !.keys = {"block_type"}]>>],
  List(<<Src(1, "x.csv"), [Dest(2, <<1>>) EXCEPT !.keys = {"block_id"}]>>),
  List(<<Src(1, "x.csv"), Proc(1, <<1>>, "drop null rows"), Dest(3, <<1>>)>>),
  List(<<Src(1, "x.csv"), Block(2, "visualize", <<1>>), Dest(3, <<2>>)>>),
  List(<<Src(1, "x.csv"), Out(1, <<>>), Block(3, "visualize", <<1>>), Dest(4, <<3>>)>>),
  List(<<Src(1, "missing.csv"), Dest(2, <<1>>)>>),
  List(<<Src(1, ""), Dest(2, <<1>>)>>)
}

\* ------------------------------------------------------- order resolution
NoMissing == 0

RECURSIVE dfs(_, _, _)
RECURSIVE dfsPrereqs(_, _, _, _)

\* dfs(block_id) of _get_dependency_chain; st = [visited, chain, err, missing]
dfs(bmap, st, block_id) ==
  IF block_id \in st.visited THEN st
  ELSE IF block_id \notin DOMAIN bmap
  THEN [st EXCEPT !.err = TRUE, !.missing = block_id]
  ELSE LET after == dfsPrereqs(bmap,
                               [st EXCEPT !.visited = @ \cup {block_id}],
                               bmap[block_id].pre_req, 1)
       IN IF after.err THEN after
          ELSE [after EXCEPT !.chain = Append(@, block_id)]

dfsPrereqs_first_only(bmap, st, prereqs, i) ==
  IF i > Len(prereqs) \/ i > 1 THEN st ELSE dfs(bmap, st, prereqs[i])

\* "for prereq_id in prereqs: result = dfs(prereq_id) ..."
dfsPrereqs(bmap, st, prereqs, i) ==
  IF i > Len(prereqs) THEN st
  ELSE LET after == dfs(bmap, st, prereqs[i])
       IN IF after.err THEN after
          ELSE dfsPrereqs(bmap, after, prereqs, i + 1)

_get_dependency_chain(bmap, dest_block) ==
  dfs(bmap, [visited |-> {}, chain |-> <<>>, err |-> FALSE, missing |-> NoMissing],
      dest_block.block_id)

InSeq(x, q) == \E i \in DOMAIN q : q[i] = x

RECURSIVE Repeat(_, _)
Repeat(x, n) == IF n = 0 THEN <<>> ELSE <<x>> \o Repeat(x, n - 1)

Occurrences(q, x) == Cardinality({i \in DOMAIN q : q[i] = x})

InDegree_distinct(bmap, block_ids, bid) ==
  Cardinality({p \in {bmap[bid].pre_req[i] : i \in DOMAIN bmap[bid].pre_req} :
                 InSeq(p, block_ids)})

\* in_degree[bid] after the first loop of _topological_sort
InDegree(bmap, block_ids, bid) ==
  Cardinality({i \in DOMAIN bmap[bid].pre_req :
                 InSeq(bmap[bid].pre_req[i], block_ids)})

RECURSIVE AdjFrom(_, _, _, _)
\* adj_list[p] after the first loop: one entry per listing of p, in the order
\* the blocks are visited
AdjFrom(bmap, block_ids, p, i) ==
  IF i > Len(block_ids) THEN <<>>
  ELSE Repeat(block_ids[i], Occurrences(bmap[block_ids[i]].pre_req, p))
       \o AdjFrom(bmap, block_ids, p, i + 1)

RECURSIVE Release(_, _, _)
\* "for neighbor in adj_list[current]": st = [in_degree, queue]
Release(st, neighbors, i) ==
  IF i > Len(neighbors) THEN st
  ELSE LET n == neighbors[i]
           d == st.in_degree[n] - 1
       IN Release([in_degree |-> [st.in_degree EXCEPT ![n] = d],
                   queue |-> IF d = 0 THEN Append(st.queue, n) ELSE st.queue],
                  neighbors, i + 1)

RECURSIVE Kahn_prepends(_, _, _, _)
Kahn_prepends(bmap, block_ids, st, result) ==
  IF st.queue = <<>> THEN result
  ELSE LET current == Head(st.queue)
           st1 == Release([st EXCEPT !.queue = Tail(@)],
                          AdjFrom(bmap, block_ids, current, 1), 1)
       IN Kahn_prepends(bmap, block_ids, st1, <<current>> \o result)

RECURSIVE Kahn(_, _, _, _)
\* "while queue:"
Kahn(bmap, block_ids, st, result) ==
  IF st.queue = <<>> THEN result
  ELSE LET current == Head(st.queue)
           st1 == Release([st EXCEPT !.queue = Tail(@)],
                          AdjFrom(bmap, block_ids, current, 1), 1)
       IN Kahn(bmap, block_ids, st1, Append(result, current))

\* "if len(result) != len(block_ids)"
CycleDetected(result, block_ids) == Len(result) # Len(block_ids)

\* _topological_sort(block_ids): [err, order]
_topological_sort(bmap, block_ids) ==
  LET ids == {block_ids[i] : i \in DOMAIN block_ids}
      in_degree == [b \in ids |-> InDegree(bmap, block_ids, b)]
      queue == SelectSeq(block_ids, LAMBDA b : in_degree[b] = 0)
      result == Kahn(bmap, block_ids, [in_degree |-> in_degree, queue |-> queue], <<>>)
  IN [err |-> CycleDetected(result, block_ids), order |-> result]

\* DatasetOrchestrator(provider_name, max_retry_attempts, script_only_mode)
InitOrchestrator(r, so, conf) ==
  /\ data = NoData
  /\ transformation_history = <<>>
  /\ max_retry_attempts = r
  /\ script_only_mode = so
  /\ configured = conf
  /\ opc = "idle"
  /\ attempt = 0
  /\ oprompt = RawPrompt("")
  /\ orchestration_prompt = Unbound
  /\ cleaned_response = NoResponse
  /\ oresult = NoResult
  /\ genCalls = 0
  /\ attemptLog = <<>>
  /\ callData = NoData
  /\ callHist = 0
  /\ goodData = NoData
  /\ calls = 0

\* ====================================================== PipelineExecutor
\* An error text and the block id it embeds (0 when it embeds none)
Err(msg, id) == [msg |-> msg, id |-> id]

NoRet ==
  [keys |-> {}, error |-> Err("", 0), failed_block |-> 0, prompt |-> "",
   destination |-> 0, status |-> "", destinations_processed |-> 0, results |-> <<>>]

RetError_with_status(e) ==
  [NoRet EXCEPT !.keys = {"error", "status"}, !.error = e, !.status = "success"]

\* {"error": ...}
RetError(e) == [NoRet EXCEPT !.keys = {"error"}, !.error = e]

RetBlockFailure_anonymous(e, keys, bid, prompt, dest) == RetError(e)

\* {"error": ..., "failed_block": ..., "prompt": ..., "destination": ...}
RetBlockFailure(e, keys, bid, prompt, dest) ==
  [NoRet EXCEPT !.keys = keys, !.error = e, !.failed_block = bid,
                !.prompt = prompt, !.destination = dest]

KnownTypes_misspelt ==
  {"input_source", "process", "output", "destination", "visualization", "visualize"}

\* the branches of "if block_type == ..." that do not return an error
KnownTypes == {"input_source", "process", "output", "destination", "visualization"}

\* _parse_blocks
RECURSIVE ParseScan(_, _)
ParseScan(blocks, i) ==
  IF i > Len(blocks) THEN [err |-> FALSE, error |-> Err("", 0)]
  ELSE IF "block_id" \notin blocks[i].keys
  THEN [err |-> TRUE, error |-> Err("Each block must have a 'block_id'", 0)]
  ELSE IF "block_type" \notin blocks[i].keys
  THEN [err |-> TRUE, error |-> Err("Each block must have a 'block_type'", 0)]
  ELSE ParseScan(blocks, i + 1)

_parse_blocks(json) ==
  IF json.format \notin {"list", "dict"}
  THEN [err |-> TRUE, error |-> Err("Invalid blocks format", 0)]
  ELSE ParseScan(json.blocks, 1)

DuplicateId_never(block_id, bmap) == FALSE

\* "if block_id in self.block_map:"
DuplicateId(block_id, bmap) == block_id \in DOMAIN bmap

\* _categorize_blocks; st = [err, error, block_map, input_blocks, destination_blocks]
RECURSIVE Categorize(_, _, _)
Categorize(blocks, i, st) ==
  IF i > Len(blocks) THEN st
  ELSE LET b == blocks[i]
           bm == (b.block_id :> b) @@ st.block_map
       IN IF DuplicateId(b.block_id, st.block_map)
          THEN [st EXCEPT !.err = TRUE, !.error = Err("Duplicate block_id found", b.block_id)]
          ELSE IF b.block_type \notin KnownTypes
          THEN [st EXCEPT !.err = TRUE, !.error = Err("Unknown block_type", 0),
                          !.block_map = bm]
          ELSE Categorize(blocks, i + 1,
                 [st EXCEPT !.block_map = bm,
                            !.input_blocks = IF b.block_type = "input_source"
                                             THEN Append(@, b) ELSE @,
                            !.destination_blocks = IF b.block_type = "destination"
                                                   THEN Append(@, b) ELSE @])

_categorize_blocks(blocks) ==
  Categorize(blocks, 1, [err |-> FALSE, error |-> Err("", 0), block_map |-> <<>>,
                         input_blocks |-> <<>>, destination_blocks |-> <<>>])

\* _load_input_sources; st = [err, error, pipeline_sources]
RECURSIVE LoadScan(_, _, _)
LoadScan(input_blocks, i, st) ==
  IF i > Len(input_blocks) THEN st
  ELSE LET b == input_blocks[i]
       IN IF b.csv_source = ""
          THEN [st EXCEPT !.err = TRUE,
                          !.error = Err("input_source block requires 'csv_source' field", b.block_id)]
          ELSE IF b.csv_source \notin Files
          THEN [st EXCEPT !.err = TRUE, !.error = Err("Input file not found", 0)]
          ELSE LoadScan(input_blocks, i + 1,
                 [st EXCEPT !.pipeline_sources = (b.block_id :> ReadFile(b.csv_source)) @@ @])

_load_input_sources(input_blocks) ==
  LoadScan(input_blocks, 1, [err |-> FALSE, error |-> Err("", 0), pipeline_sources |-> <<>>])

\* list(self.pipeline_sources.keys()): the loaded ids in loading order
RECURSIVE SourceKeys(_, _, _)
SourceKeys(blocks, sources, i) ==
  IF i > Len(blocks) THEN <<>>
  ELSE (IF blocks[i].block_type = "input_source" /\ blocks[i].block_id \in DOMAIN sources
        THEN <<blocks[i].block_id>> ELSE <<>>)
       \o SourceKeys(blocks, sources, i + 1)

Step(text, id, detail) == [text |-> text, id |-> id, detail |-> detail]

_build_contextual_prompt_without_sources(prompt, steps, keys) ==
  IF steps = <<>>
  THEN [kind |-> "bare", steps |-> <<>>, sources |-> <<>>, request |-> prompt]
  ELSE [kind |-> "contextual",
        steps |-> [i \in 1..Len(steps) |-> [index |-> i, step |-> steps[i]]],
        sources |-> keys, request |-> prompt]

\* _build_contextual_prompt
_build_contextual_prompt(prompt, steps, keys) ==
  IF steps = <<>>
  THEN [kind |-> "bare", steps |-> <<>>, sources |-> keys, request |-> prompt]
  ELSE [kind |-> "contextual",
        steps |-> [i \in 1..Len(steps) |-> [index |-> i, step |-> steps[i]]],
        sources |-> keys, request |-> prompt]

\* _get_data_preview
_get_data_preview(df) == [present |-> TRUE, shape |-> <<df.rows, df.cols>>]
NoPreview == [present |-> FALSE, shape |-> <<0, 0>>]

\* PipelineExecutor(provider_name) and the call execute_pipeline(json)
InitPipeline ==
  /\ \E conf \in BOOLEAN : InitOrchestrator(DefaultMaxRetry, FALSE, conf)
  /\ pc = "start"
  /\ blocks_json \in Submissions
  /\ block_map = <<>>
  /\ pipeline_sources = <<>>
  /\ execution_history = <<>>
  /\ destination_blocks = <<>>
  /\ results = <<>>
  /\ dest_index = 1
  /\ dest_id = 0
  /\ execution_order = <<>>
  /\ pos = 1
  /\ current_data = NoData
  /\ executed_steps = <<>>
  /\ final_cleaned_file = FALSE
  /\ ret = NoRet
  /\ executed = {}
  /\ effects = {}
  /\ totalGen = 0
  /\ dataOwner = 0

ovarsNoData == <<transformation_history, max_retry_attempts, script_only_mode,
                 configured, opc, attempt, oprompt, orchestration_prompt,
                 cleaned_response, oresult, genCalls, attemptLog, callData,
                 callHist, calls>>

\* execute_pipeline up to the loop over the destinations (lines 44-63)
StartPipeline ==
  /\ pc = "start"
  /\ LET parsed == _parse_blocks(blocks_json)
         cat == _categorize_blocks(blocks_json.blocks)
         load == _load_input_sources(cat.input_blocks)
     IN IF parsed.err
        THEN /\ ret' = RetError(parsed.error)
             /\ pc' = "done"
             /\ UNCHANGED <<block_map, pipeline_sources, destination_blocks>>
        ELSE IF cat.err
        THEN /\ ret' = RetError(cat.error)
             /\ pc' = "done"
             /\ block_map' = cat.block_map
             /\ UNCHANGED <<pipeline_sources, destination_blocks>>
        ELSE /\ block_map' = cat.block_map
             /\ pipeline_sources' = load.pipeline_sources
             /\ destination_blocks' = cat.destination_blocks
             /\ IF load.err
                THEN ret' = RetError(load.error) /\ pc' = "done"
                ELSE ret' = ret /\ pc' = "dest"
  /\ UNCHANGED <<blocks_json, execution_history, results, dest_index, dest_id,
                 execution_order, pos, current_data, executed_steps,
                 final_cleaned_file, executed, effects, totalGen, dataOwner>>
  /\ UNCHANGED ovars

\* _execute_destination_pipeline up to the loop over the blocks (lines 188-206)
ResolveDestination ==
  /\ pc = "dest"
  /\ dest_index <= Len(destination_blocks)
  /\ LET dest_block == destination_blocks[dest_index]
         chain == _get_dependency_chain(block_map, dest_block)
         sorted == _topological_sort(block_map, chain.chain)
     IN /\ dest_id' = dest_block.block_id
        /\ IF chain.err
           THEN /\ ret' = RetError(Err("Block referenced but not found", chain.missing))
                /\ pc' = "done"
                /\ UNCHANGED <<execution_order, pos, current_data, executed_steps,
                               final_cleaned_file>>
           ELSE IF sorted.err
           THEN /\ ret' = RetError(Err("Cyclic dependencies detected in pipeline", 0))
                /\ pc' = "done"
                /\ UNCHANGED <<execution_order, pos, current_data, executed_steps,
                               final_cleaned_file>>
           ELSE /\ execution_order' = sorted.order
                /\ pos' = 1
                /\ current_data' = NoData
                /\ executed_steps' = <<>>
                /\ final_cleaned_file' = FALSE
                /\ pc' = "blocks"
                /\ UNCHANGED ret
  /\ UNCHANGED <<blocks_json, block_map, pipeline_sources, execution_history,
                 destination_blocks, results, dest_index, executed, effects,
                 totalGen, dataOwner>>
  /\ UNCHANGED ovars

CurrentBlock == block_map[execution_order[pos]]

InLoop(type) ==
  /\ pc = "blocks"
  /\ pos <= Len(execution_order)
  /\ CurrentBlock.block_type = type

SourceCopy_keeps_working_data(sources, block_id) ==
  IF data # NoData THEN data ELSE sources[block_id]

\* "self.pipeline_sources[block_id].copy()"
SourceCopy(sources, block_id) == sources[block_id]

\* "if block_type == "input_source":" (lines 212-217)
LoadSource ==
  /\ InLoop("input_source")
  /\ LET block_id == CurrentBlock.block_id
     IN /\ current_data' = SourceCopy(pipeline_sources, block_id)
        /\ data' = SourceCopy(pipeline_sources, block_id)
        /\ goodData' = SourceCopy(pipeline_sources, block_id)
        /\ dataOwner' = dest_id
        /\ executed_steps' = Append(executed_steps, Step("Loaded input source", block_id, ""))
        /\ executed' = executed \cup {<<dest_id, block_id>>}
  /\ pos' = pos + 1
  /\ UNCHANGED <<pc, blocks_json, block_map, pipeline_sources, execution_history,
                 destination_blocks, results, dest_index, dest_id, execution_order,
                 final_cleaned_file, ret, effects, totalGen>>
  /\ UNCHANGED ovarsNoData

\* str.strip() on the prompts of the submissions: a prompt of blanks only
\* becomes the empty string, the others have no blanks around them
strip(s) == IF s \in {" ", "   "} THEN "" ELSE s

EmptyPrompt_unstripped(block) == block.prompt = ""

\* "prompt = block.get("prompt", "").strip(); if not prompt: continue"
EmptyPrompt(block) == strip(block.prompt) = ""

\* "elif block_type == "process":" up to the orchestrator call (lines 219-229)
RunProcess ==
  /\ InLoop("process")
  /\ IF EmptyPrompt(CurrentBlock)
     THEN /\ pos' = pos + 1
          /\ UNCHANGED <<pc, executed>>
          /\ UNCHANGED ovars
     ELSE /\ OrchestrateEnter(_build_contextual_prompt(CurrentBlock.prompt, executed_steps,
                                SourceKeys(blocks_json.blocks, pipeline_sources, 1)))
          /\ pc' = "orch"
          /\ executed' = executed \cup {<<dest_id, CurrentBlock.block_id>>}
          /\ UNCHANGED <<pos, calls>>
  /\ UNCHANGED <<blocks_json, block_map, pipeline_sources, execution_history,
                 destination_blocks, results, dest_index, dest_id, execution_order,
                 current_data, executed_steps, final_cleaned_file, ret,
                 effects, totalGen, dataOwner>>

TransformFailed_error_key_only(result) == result.has_error

\* "if "error" in result or (result.get("execution_result") and
\*  result["execution_result"].get("error")):"
TransformFailed(result) == result.has_error \/ result.exec_status = "error"

\* The rest of the process branch, once orchestrate_transformation has
\* returned (lines 231-241)
ProcessReturn ==
  /\ pc = "orch"
  /\ opc = "returned"
  /\ LET block == CurrentBlock
     IN IF TransformFailed(oresult)
        THEN /\ ret' = RetBlockFailure(
                         Err(IF oresult.has_error THEN oresult.error ELSE oresult.exec_error, 0),
                         {"error", "failed_block", "prompt", "destination"},
                         block.block_id, block.prompt, dest_id)
             /\ pc' = "done"
             /\ UNCHANGED <<current_data, executed_steps, pos>>
        ELSE IF ~IsFrame(data)
        THEN /\ ret' = RetError(Err("Pipeline execution failed", 0))
             /\ pc' = "done"
             /\ UNCHANGED <<current_data, executed_steps, pos>>
        ELSE /\ current_data' = data
             /\ executed_steps' = Append(executed_steps, Step("Block", block.block_id, block.prompt))
             /\ pos' = pos + 1
             /\ pc' = "blocks"
             /\ UNCHANGED ret
  /\ totalGen' = totalGen + genCalls
  /\ opc' = "idle"
  /\ attempt' = 0
  /\ oprompt' = RawPrompt("")
  /\ orchestration_prompt' = Unbound
  /\ cleaned_response' = NoResponse
  /\ oresult' = NoResult
  /\ genCalls' = 0
  /\ attemptLog' = <<>>
  /\ callData' = NoData
  /\ callHist' = 0
  /\ UNCHANGED <<data, transformation_history, max_retry_attempts, script_only_mode,
                 configured, goodData, calls>>
  /\ UNCHANGED <<blocks_json, block_map, pipeline_sources, execution_history,
                 destination_blocks, results, dest_index, dest_id, execution_order,
                 final_cleaned_file, executed, effects, dataOwner>>

to_csv_resets_index(df) == Frame(df.rows, df.cols + 1)

\* "current_data.to_csv(final_path, index=False)": the frame afterwards
to_csv(df) == df

\* "elif block_type == "output":" (lines 243-287); saveOk: makedirs and to_csv
\* do not raise
RunOutput(saveOk) ==
  /\ InLoop("output")
  /\ LET block_id == CurrentBlock.block_id
         prepared == Append(executed_steps,
                            Step("Prepared data for delivery", block_id, CurrentBlock.output_data))
     IN /\ executed' = executed \cup {<<dest_id, block_id>>}
        /\ IF current_data = NoData
           THEN /\ executed_steps' = prepared
                /\ pos' = pos + 1
                /\ UNCHANGED <<pc, ret, final_cleaned_file, effects, current_data>>
           ELSE IF saveOk
           THEN /\ executed_steps' = Append(prepared, Step("Saved final dataset", block_id, ""))
                /\ final_cleaned_file' = TRUE
                /\ effects' = effects \cup {<<"clean_csv", block_id>>}
                /\ current_data' = to_csv(current_data)
                /\ pos' = pos + 1
                /\ UNCHANGED <<pc, ret>>
           ELSE /\ ret' = RetBlockFailure(Err("Failed to save final dataset for output block", block_id),
                                          {"error", "failed_block", "destination"},
                                          block_id, "", dest_id)
                /\ pc' = "done"
                /\ executed_steps' = prepared
                /\ UNCHANGED <<pos, final_cleaned_file, effects, current_data>>
  /\ UNCHANGED <<blocks_json, block_map, pipeline_sources, execution_history,
                 destination_blocks, results, dest_index, dest_id, execution_order,
                 totalGen, dataOwner>>
  /\ UNCHANGED ovars

\* "elif block_type == "visualization":" (lines 288-295)
RunVisualization ==
  /\ InLoop("visualization")
  /\ executed_steps' = Append(executed_steps,
        Step(IF CurrentBlock.prompt # "" THEN "Visualization prompt captured from block"
             ELSE "Visualization block present with empty prompt", CurrentBlock.block_id, ""))
  /\ executed' = executed \cup {<<dest_id, CurrentBlock.block_id>>}
  /\ pos' = pos + 1
  /\ UNCHANGED <<pc, blocks_json, block_map, pipeline_sources, execution_history,
                 destination_blocks, results, dest_index, dest_id, execution_order,
                 current_data, final_cleaned_file, ret, effects, totalGen, dataOwner>>
  /\ UNCHANGED ovars

\* A destination block in the loop matches no branch.
PassDestination ==
  /\ InLoop("destination")
  /\ pos' = pos + 1
  /\ UNCHANGED <<pc, blocks_json, block_map, pipeline_sources, execution_history,
                 destination_blocks, results, dest_index, dest_id, execution_order,
                 current_data, executed_steps, final_cleaned_file, ret, executed,
                 effects, totalGen, dataOwner>>
  /\ UNCHANGED ovars

HistoryEntry(dest, order, steps, df) ==
  [destination_id |-> dest, execution_order |-> order, executed_steps |-> steps,
   final_shape |-> IF df = NoData THEN <<>> ELSE <<df.rows, df.cols>>]

\* "self.execution_history.append({...})" after the loop (lines 297-307)
RecordHistory ==
  /\ pc = "blocks"
  /\ pos > Len(execution_order)
  /\ execution_history' = Append(execution_history,
        HistoryEntry(dest_id, execution_order, executed_steps, current_data))
  /\ pc' = "deliver"
  /\ UNCHANGED <<blocks_json, block_map, pipeline_sources, destination_blocks,
                 results, dest_index, dest_id, execution_order, pos, current_data,
                 executed_steps, final_cleaned_file, ret, executed, effects,
                 totalGen, dataOwner>>
  /\ UNCHANGED ovars

DestinationResult(dest, order, preview, viz) ==
  [destination_id |-> dest, status |-> "success", execution_order |-> order,
   final_preview |-> preview, visualization_send |-> viz]

\* "final_cleaned_file" is read by the return statement (line 371)
FinalCleanedFileBound(bound) == bound

\* The rest of _execute_destination_pipeline (lines 309-373) and the loop
\* step of execute_pipeline (lines 68-72).  writeOk: output/1_latest.csv is
\* written; sent: make_graph.py exits with 0.  executed_steps is the list
\* object the history entry holds, so the entry sees the line appended here.
Deliver(writeOk, sent) ==
  /\ pc = "deliver"
  /\ LET dest_block == destination_blocks[dest_index]
         steps == IF current_data = NoData THEN executed_steps
                  ELSE Append(executed_steps,
                         Step(IF writeOk THEN "Wrote latest dataset for visualization"
                              ELSE "Warning: failed to write output/1_latest.csv", 0, ""))
         viz == IF dest_block.email_dest = "" THEN "skipped"
                ELSE IF sent THEN "sent" ELSE "failed"
     IN /\ executed_steps' = steps
        /\ execution_history' =
             [execution_history EXCEPT ![Len(execution_history)].executed_steps = steps]
        /\ effects' = effects
                      \cup (IF current_data # NoData /\ writeOk THEN {<<"latest_csv", dest_id>>} ELSE {})
                      \cup (IF viz = "skipped" THEN {} ELSE {<<"make_graph", dest_id>>})
        /\ IF FinalCleanedFileBound(final_cleaned_file)
           THEN /\ results' = Append(results,
                      DestinationResult(dest_id, execution_order,
                        IF current_data = NoData THEN NoPreview
                        ELSE _get_data_preview(current_data), viz))
                /\ dest_index' = dest_index + 1
                /\ pc' = "dest"
                /\ UNCHANGED ret
           ELSE /\ ret' = RetError(Err("Pipeline execution failed", 0))
                /\ pc' = "done"
                /\ UNCHANGED <<results, dest_index>>
  /\ UNCHANGED <<blocks_json, block_map, pipeline_sources, destination_blocks,
                 dest_id, execution_order, pos, current_data, final_cleaned_file,
                 executed, totalGen, dataOwner>>
  /\ UNCHANGED ovars

\* "return {"status": "success", ...}" (lines 75-80)
ReturnSuccess_counts_blocks ==
  /\ pc = "dest"
  /\ dest_index > Len(destination_blocks)
  /\ ret' = [NoRet EXCEPT !.keys = {"status", "destinations_processed", "results",
                                    "execution_history"},
                          !.status = "success",
                          !.destinations_processed = Len(blocks_json.blocks),
                          !.results = results]
  /\ pc' = "done"
  /\ UNCHANGED <<blocks_json, block_map, pipeline_sources, execution_history,
                 destination_blocks, results, dest_index, dest_id, execution_order,
                 pos, current_data, executed_steps, final_cleaned_file, executed,
                 effects, totalGen, dataOwner>>
  /\ UNCHANGED ovars

\* "return {"status": "success", ...}" after the loop over the destinations
ReturnSuccess ==
  /\ pc = "dest"
  /\ dest_index > Len(destination_blocks)
  /\ ret' = [NoRet EXCEPT !.keys = {"status", "destinations_processed", "results",
                                    "execution_history"},
                          !.status = "success",
                          !.destinations_processed = Len(destination_blocks),
                          !.results = results]
  /\ pc' = "done"
  /\ UNCHANGED <<blocks_json, block_map, pipeline_sources, execution_history,
                 destination_blocks, results, dest_index, dest_id, execution_order,
                 pos, current_data, executed_steps, final_cleaned_file, executed,
                 effects, totalGen, dataOwner>>
  /\ UNCHANGED ovars

Next ==
  \/ StartPipeline
  \/ ResolveDestination
  \/ LoadSource
  \/ RunProcess
  \/ \E resp \in GatewayResponses, saveOk \in BOOLEAN : Attempt(resp, saveOk)
  \/ ProcessReturn
  \/ \E saveOk \in BOOLEAN : RunOutput(saveOk)
  \/ RunVisualization
  \/ PassDestination
  \/ RecordHistory
  \/ \E writeOk \in BOOLEAN, sent \in BOOLEAN : Deliver(writeOk, sent)
  \/ ReturnSuccess

Spec == InitPipeline /\ [][Next]_vars

\* ------------------------------------- direct use of DatasetOrchestrator
\* No pipeline is run by a direct caller.
NoPipeline ==
  /\ pc = "none"
  /\ blocks_json = [format |-> "other", blocks |-> <<>>]
  /\ block_map = <<>>
  /\ pipeline_sources = <<>>
  /\ execution_history = <<>>
  /\ destination_blocks = <<>>
  /\ results = <<>>
  /\ dest_index = 1
  /\ dest_id = 0
  /\ execution_order = <<>>
  /\ pos = 1
  /\ current_data = NoData
  /\ executed_steps = <<>>
  /\ final_cleaned_file = FALSE
  /\ ret = NoRet
  /\ executed = {}
  /\ effects = {}
  /\ totalGen = 0
  /\ dataOwner = 0

InitOrch ==
  /\ \E r \in 0..MaxRetry, so \in BOOLEAN, conf \in BOOLEAN : InitOrchestrator(r, so, conf)
  /\ NoPipeline

\* load_dataset(file_path) of a readable file
load_dataset(f) ==
  /\ opc = "idle"
  /\ data' = ReadFile(f)
  /\ goodData' = ReadFile(f)
  /\ UNCHANGED <<transformation_history, max_retry_attempts, script_only_mode,
                 configured, opc, attempt, oprompt, orchestration_prompt,
                 cleaned_response, oresult,
                 genCalls, attemptLog, callData, callHist, calls>>
  /\ UNCHANGED pvars

set_script_only_mode(enabled) ==
  /\ opc = "idle"
  /\ script_only_mode' = enabled
  /\ UNCHANGED <<data, transformation_history, max_retry_attempts,
                 configured, opc, attempt, oprompt, orchestration_prompt,
                 cleaned_response, oresult,
                 genCalls, attemptLog, callData, callHist, goodData, calls>>
  /\ UNCHANGED pvars

\* orch.orchestrate_transformation(prompt), called by app.py or a session
DirectCall(p) ==
  /\ opc = "idle"
  /\ calls < MaxCalls
  /\ calls' = calls + 1
  /\ OrchestrateEnter(p)
  /\ UNCHANGED pvars

\* The caller takes the result; the call's locals are gone.
DirectReturn ==
  /\ opc = "returned"
  /\ opc' = "idle"
  /\ attempt' = 0
  /\ oprompt' = RawPrompt("")
  /\ orchestration_prompt' = Unbound
  /\ cleaned_response' = NoResponse
  /\ oresult' = NoResult
  /\ genCalls' = 0
  /\ attemptLog' = <<>>
  /\ callData' = NoData
  /\ callHist' = 0
  /\ UNCHANGED <<data, transformation_history, max_retry_attempts, script_only_mode,
                 configured, goodData, calls>>
  /\ UNCHANGED pvars

NextOrch ==
  \/ load_dataset("x.csv")
  \/ \E b \in BOOLEAN : set_script_only_mode(b)
  \/ DirectCall(RawPrompt("clean missing values"))
  \/ \E resp \in GatewayResponses, saveOk \in BOOLEAN : Attempt(resp, saveOk)
  \/ DirectReturn

SpecOrch == InitOrch /\ [][NextOrch]_vars

\* ================================================================== claims
Last(q) == q[Len(q)]

AllOutcomes(kind) ==
  /\ attemptLog # <<>>
  /\ \A i \in DOMAIN attemptLog : attemptLog[i].outcome = kind

GatewayFailed(i) == attemptLog[i].outcome \in {"gw_error", "gw_raise"}

ReportedFailed(o) ==
  o \in {"script_fault", "no_code", "gw_error", "gw_raise", "prompt_exception"}

\* ----- facts about the submission, read off blocks_json alone
SubBlocks == blocks_json.blocks

SubIds == {SubBlocks[i].block_id : i \in DOMAIN SubBlocks}

\* the ids b lists in pre_req
Prereqs(b) == {b.pre_req[k] : k \in DOMAIN b.pre_req}

RECURSIVE RequiredBy(_)
\* every id reachable from the ids S by following pre_req
RequiredBy(S) ==
  LET more == S \cup UNION {Prereqs(SubBlocks[i]) :
                              i \in {j \in DOMAIN SubBlocks : SubBlocks[j].block_id \in S}}
  IN IF more = S THEN S ELSE RequiredBy(more)

HasCycle ==
  \E i \in DOMAIN SubBlocks : SubBlocks[i].block_id \in RequiredBy(Prereqs(SubBlocks[i]))

HasUnresolved ==
  \E i \in DOMAIN SubBlocks : \E p \in Prereqs(SubBlocks[i]) : p \notin SubIds

\* one source, then transforms, then one destination, each requiring the
\* block before it
IsSimpleChain ==
  /\ blocks_json.format = "list"
  /\ Len(SubBlocks) >= 3
  /\ \A i \in DOMAIN SubBlocks : SubBlocks[i].keys = {"block_id", "block_type"}
  /\ SubBlocks[1].block_type = "input_source" /\ SubBlocks[1].csv_source \in Files
  /\ SubBlocks[Len(SubBlocks)].block_type = "destination"
  /\ \A i \in 2..(Len(SubBlocks) - 1) :
       SubBlocks[i].block_type = "process" /\ SubBlocks[i].prompt # ""
  /\ \A i \in 2..Len(SubBlocks) : SubBlocks[i].pre_req = <<SubBlocks[i - 1].block_id>>

TransformSucceeded(id) ==
  \E k \in DOMAIN executed_steps :
    executed_steps[k].text = "Block" /\ executed_steps[k].id = id

NothingExecuted == executed = {} /\ totalGen = 0 /\ effects = {}

\* C1: when execute_pipeline has returned for a chain of one source, one or
\* more transforms and one destination (no output block) whose transforms all
\* succeeded, the value returned has status success and exactly one result,
\* the destination's, whose final_preview shape is the shape of the dataset
\* the last transform produced.
C1_ChainSucceeds ==
  (/\ pc = "done"
   /\ IsSimpleChain
   /\ \A i \in 2..(Len(SubBlocks) - 1) : TransformSucceeded(SubBlocks[i].block_id))
  => /\ ret.status = "success"
     /\ Len(ret.results) = 1
     /\ ret.results[1].destination_id = SubBlocks[Len(SubBlocks)].block_id
     /\ ret.results[1].final_preview.shape = <<data.rows, data.cols>>

\* C2: when the gateway returns a non-empty script at every attempt and the
\* execution of each of them fails, the call makes exactly
\* max_retry_attempts + 1 generation calls, appends exactly one Step Record,
\* marked failed, whose attempts field is max_retry_attempts + 1, and returns
\* a failed result.
C2_RetryBoundRespected ==
  (opc = "returned" /\ ~script_only_mode /\ AllOutcomes("script_fault")) =>
    /\ genCalls = max_retry_attempts + 1
    /\ Len(transformation_history) = callHist + 1
    /\ Last(transformation_history).attempts = max_retry_attempts + 1
    /\ Last(transformation_history).final_status = "failed"
    /\ oresult.exec_status = "error"

C2_Witness ==
  /\ opc = "returned" /\ ~script_only_mode /\ AllOutcomes("script_fault")
  /\ max_retry_attempts = DefaultMaxRetry
  /\ genCalls = 3

\* C3: an attempt whose script succeeds is the last of its call: if it is
\* attempt k, the call has made exactly k generation calls, has appended
\* exactly one Step Record, a success with attempts = k, and has returned the
\* success, so no generation call follows it.
C3_SuccessShortCircuits ==
  \A k \in DOMAIN attemptLog :
    attemptLog[k].outcome = "success" =>
      /\ k = Len(attemptLog)
      /\ opc = "returned"
      /\ genCalls = k
      /\ Len(transformation_history) = callHist + 1
      /\ Last(transformation_history).attempts = k
      /\ Last(transformation_history).final_status = "absent"
      /\ Last(transformation_history).result.exec_status = "success"
      /\ oresult.exec_status = "success"

C3_Witness ==
  /\ opc = "returned" /\ ~script_only_mode
  /\ Len(attemptLog) = 2
  /\ attemptLog[1].outcome = "script_fault"
  /\ attemptLog[2].outcome = "success"
  /\ genCalls = 2

\* C4: whenever the last attempt of the call in progress was reported as
\* failed, self.data equals the dataset of the last successful step.
C4_FailureKeepsLastGood ==
  (attemptLog # <<>> /\ ReportedFailed(Last(attemptLog).outcome)) => data = goodData

\* C5: after an attempt at which the gateway call failed (an error response
\* or a raised exception), no later iteration of the same call reaches the
\* gateway again, and the call returns an error.
C5_GatewayFailureNotRetried ==
  \A i \in DOMAIN attemptLog :
    GatewayFailed(i) =>
      /\ \A j \in DOMAIN attemptLog : j > i => ~attemptLog[j].called
      /\ opc = "returned" => oresult.has_error

\* C6: when execute_pipeline has returned for a submission whose pre_req
\* relation contains a cycle, the value returned is an error and no block was
\* executed: no generation call, no script run, no file written.
C6_CycleRejectedUnexecuted ==
  (pc = "done" /\ HasCycle) => ("error" \in ret.keys /\ NothingExecuted)

\* C7: when execute_pipeline has returned for a submission in which a block
\* lists a prerequisite id that no block has, the value returned is an error
\* and no block was executed, also none of an earlier destination.
C7_UnresolvedRejectedUnexecuted ==
  (pc = "done" /\ HasUnresolved) => ("error" \in ret.keys /\ executed = {} /\ totalGen = 0)

DestinationIds(n) == {destination_blocks[i].block_id : i \in 1..n}

\* C8: with two or more destinations, a run that ends inside a destination
\* returns an error object without status success and without results; every
\* destination before the failing one had succeeded; a "destination" field
\* names the failing one; no block was executed for a later destination; and
\* a transform step that ended as failed always ends the run this way.
C8_FirstFailureWins ==
  /\ (pc = "done" /\ Len(destination_blocks) >= 2 /\ dest_index <= Len(destination_blocks)
      /\ dest_id # 0) =>
       /\ "error" \in ret.keys
       /\ ret.status # "success" /\ "results" \notin ret.keys /\ ret.results = <<>>
       /\ dest_id = destination_blocks[dest_index].block_id
       /\ Len(results) = dest_index - 1
       /\ \A i \in DOMAIN results : results[i].status = "success"
       /\ ("destination" \in ret.keys => ret.destination = dest_id)
       /\ \A e \in executed : e[1] \in DestinationIds(dest_index)
  /\ (/\ pc \in {"blocks", "deliver", "dest", "done"}
      /\ transformation_history # <<>>
      /\ Last(transformation_history).final_status = "failed")
     => (pc = "done" /\ "error" \in ret.keys /\ "failed_block" \in ret.keys)

C8_Witness ==
  /\ pc = "done"
  /\ Len(destination_blocks) >= 2
  /\ dest_index = 1
  /\ "failed_block" \in ret.keys
  /\ ret.destination = destination_blocks[1].block_id
  /\ transformation_history # <<>>
  /\ Last(transformation_history).final_status = "failed"

\* C9: a transform attempt of one destination's run only ever runs against a
\* dataset that this destination's own run loaded.
C9_TerminalsIsolated ==
  (pc = "orch" /\ opc = "attempt") => dataOwner = dest_id

\* C10: in script-only mode, an attempt at which the gateway returned a
\* non-empty script that compiles ends the call with a success result and
\* self.data is the dataset the call started with.
GatewayAnswered ==
  /\ attemptLog # <<>>
  /\ Last(attemptLog).outcome \in {"success", "script_fault", "no_code"}

ValidScript(r) == r.kind = "rec" /\ r.code # "" /\ Compiles(r.code)

C10_ScriptOnlyNonMutating ==
  (script_only_mode /\ GatewayAnswered /\ ValidScript(cleaned_response)) =>
    /\ opc = "returned"
    /\ data = callData
    /\ ~oresult.has_error
    /\ oresult.exec_status = "success"

C10_Witness ==
  /\ script_only_mode /\ GatewayAnswered
  /\ cleaned_response.code = "drop_rows"
  /\ opc = "returned"
  /\ data = Frame(SrcRows, SrcCols) /\ data = callData
  /\ oresult.exec_status = "success"

\* C11: in script-only mode, whatever the gateway answers (a script that
\* compiles, one that does not, an empty or missing script), a call makes no
\* second generation call, and a script that does not compile ends the call
\* at once with a failed result.
OnlyAnswers ==
  \A i \in DOMAIN attemptLog : attemptLog[i].outcome \in {"success", "script_fault", "no_code"}

C11_ScriptOnlySingleGeneration ==
  (script_only_mode /\ OnlyAnswers) =>
    /\ genCalls <= 1
    /\ (attemptLog # <<>> /\ Last(attemptLog).outcome = "script_fault") =>
         (opc = "returned" /\ oresult.exec_status = "error")

\* C13: when orchestrate_transformation returns a failure for a process block
\* (an error object, or a result whose execution did not succeed), the run
\* ends in that step with an object that carries the id of that block, its
\* prompt text and the error text of the failure, and dispatches no block;
\* and in a run ended this way no block after the failing one in the
\* execution order was dispatched.
StepFailed == oresult.has_error \/ oresult.exec_status # "success"

UnderlyingError == IF oresult.has_error THEN oresult.error ELSE oresult.exec_error

LaterBlocks == {execution_order[k] : k \in (pos + 1)..Len(execution_order)}

C13_TransformFailureStopsRun ==
  /\ [][(pc = "orch" /\ opc = "returned" /\ StepFailed) =>
          /\ pc' = "done"
          /\ {"error", "failed_block", "prompt"} \subseteq ret'.keys
          /\ ret'.failed_block = CurrentBlock.block_id
          /\ ret'.prompt = CurrentBlock.prompt
          /\ ret'.error.msg = UnderlyingError
          /\ ret'.error.msg # ""
          /\ executed' = executed /\ effects' = effects]_vars
  /\ []((pc = "done" /\ "prompt" \in ret.keys) =>
          \A b \in LaterBlocks : <<dest_id, b>> \notin executed)

C13_Witness ==
  /\ pc = "done"
  /\ {"error", "failed_block", "prompt"} \subseteq ret.keys
  /\ ret.failed_block = 2
  /\ ret.prompt = "drop null rows"
  /\ ret.error.msg = "Code execution failed: KeyError"
  /\ LaterBlocks # {}
  /\ <<dest_id, 1>> \in executed

\* C14: an error object that execute_pipeline returns for a failure inside a
\* destination's resolution or run has, besides "error", the fields
\* "failed_block" and "destination", the latter naming that destination.
C14_FailureNamesBlockAndTerminal ==
  (pc = "done" /\ dest_id # 0 /\ "error" \in ret.keys) =>
    /\ {"failed_block", "destination"} \subseteq ret.keys
    /\ ret.destination = dest_id

\* C15: when the run has ended and every destination it started has run all
\* the blocks of its execution order without a failure (its history entry was
\* appended), the value returned has status success and one result per
\* destination block, in submission order, each with its execution order and
\* final preview, and execution_history has one entry per destination.
AllStartedTerminalsRanTheirBlocks ==
  /\ destination_blocks # <<>>
  /\ dest_id # 0
  /\ Len(execution_history) =
       IF dest_index <= Len(destination_blocks) THEN dest_index ELSE Len(destination_blocks)

C15_AllSucceedAggregates ==
  (pc = "done" /\ AllStartedTerminalsRanTheirBlocks) =>
    /\ ret.status = "success"
    /\ Len(ret.results) = Len(destination_blocks)
    /\ \A i \in DOMAIN ret.results :
         /\ ret.results[i].destination_id = destination_blocks[i].block_id
         /\ ret.results[i].execution_order = execution_history[i].execution_order
         /\ ret.results[i].final_preview.present
    /\ Len(execution_history) = Len(destination_blocks)

\* C16: a block that no destination requires is never loaded and never
\* dispatched, and the execution order of a destination holds only blocks
\* that this destination requires.
Closure(d) == RequiredBy({d})

InSomeClosure(b) ==
  \E i \in DOMAIN SubBlocks :
    SubBlocks[i].block_type = "destination" /\ b \in Closure(SubBlocks[i].block_id)

C16_UnreachableNeverScheduled ==
  /\ \A b \in DOMAIN pipeline_sources : InSomeClosure(b)
  /\ \A e \in executed : e[2] \in Closure(e[1])
  /\ (pc \in {"blocks", "orch", "deliver"}) =>
       \A k \in DOMAIN execution_order : execution_order[k] \in Closure(dest_id)

\* C17: for a submission in which a block has no block_id or no block_type,
\* or in which two blocks have the same block_id, execute_pipeline never gets
\* past its validation: no source is loaded, no block is dispatched, and the
\* value it returns is an error object.
LacksRequiredKey ==
  \E i \in DOMAIN SubBlocks : ~({"block_id", "block_type"} \subseteq SubBlocks[i].keys)

SharedBlockId ==
  \E i, j \in DOMAIN SubBlocks :
    /\ i # j
    /\ "block_id" \in SubBlocks[i].keys /\ "block_id" \in SubBlocks[j].keys
    /\ SubBlocks[i].block_id = SubBlocks[j].block_id

C17_MalformedRejectedBeforeLoad ==
  (LacksRequiredKey \/ SharedBlockId) =>
    /\ pc \in {"start", "done"}
    /\ pipeline_sources = <<>>
    /\ NothingExecuted
    /\ pc = "done" => ret.keys = {"error"}

C17_Witness ==
  /\ SharedBlockId /\ ~LacksRequiredKey
  /\ \E i \in DOMAIN SubBlocks :
       SubBlocks[i].block_type = "input_source" /\ SubBlocks[i].csv_source \in Files
  /\ pc = "done"
  /\ ret.error = Err("Duplicate block_id found", 1)
  /\ pipeline_sources = <<>>

\* C18 as stated: for a submission with a block whose block_type is not one
\* of input_source, process, output, destination, execute_pipeline returns
\* the unknown-type error and nothing of the submission is executed.
FourTypes == {"input_source", "process", "output", "destination"}

C18_OutsideFourTypesRejected ==
  (\E i \in DOMAIN SubBlocks : SubBlocks[i].block_type \notin FourTypes) =>
    /\ NothingExecuted
    /\ pc = "done" => ret.error.msg = "Unknown block_type"

\* C18, amended: a block_type outside input_source, process, output,
\* destination, visualization makes execute_pipeline return an error with no
\* source loaded and no block dispatched; the error is the unknown-type error
\* when every block has both keys and no block up to that one repeats an
\* earlier id; and the unknown-type error is returned for no other type.
FiveTypes == FourTypes \cup {"visualization"}

UnknownType(i) == SubBlocks[i].block_type \notin FiveTypes

RepeatsEarlierId(j) == \E k \in 1..(j - 1) : SubBlocks[k].block_id = SubBlocks[j].block_id

C18_UnknownTypeRejected ==
  /\ (\E i \in DOMAIN SubBlocks : UnknownType(i)) =>
       /\ pc \in {"start", "done"}
       /\ pipeline_sources = <<>>
       /\ NothingExecuted
       /\ pc = "done" => ret.keys = {"error"}
       /\ (/\ pc = "done"
           /\ ~LacksRequiredKey
           /\ blocks_json.format \in {"list", "dict"}
           /\ \E i \in DOMAIN SubBlocks :
                UnknownType(i) /\ \A j \in 1..i : ~RepeatsEarlierId(j))
          => ret.error.msg = "Unknown block_type"
  /\ ret.error.msg = "Unknown block_type" => \E i \in DOMAIN SubBlocks : UnknownType(i)

C18_Witness ==
  /\ pc = "done"
  /\ ret.error.msg = "Unknown block_type"
  /\ \E i \in DOMAIN SubBlocks :
       SubBlocks[i].block_type = "input_source" /\ SubBlocks[i].csv_source \in Files
  /\ pipeline_sources = <<>>
  /\ executed = {}

\* C19: an attempt whose gateway response holds no parseable recommendation
\* runs no script, leaves self.data as it was, and ends the call with the
\* failure "No code generated by AI".
UnparsedAnswer ==
  /\ opc = "attempt"
  /\ genCalls' = genCalls + 1
  /\ cleaned_response'.kind = "unparsed"
  /\ Last(attemptLog').outcome = "no_code"

C19_UnparsedEndsStep ==
  [][UnparsedAnswer =>
       /\ data' = data
       /\ opc' = "returned"
       /\ oresult'.exec_error = "No code generated by AI"]_vars

\* C20: the step that runs an output block leaves the run's current dataset
\* and the orchestrator's dataset as they were, and, unless it ends the run
\* with a save failure, appends to the destination's executed steps an entry
\* for that block and keeps the earlier entries.
C20_OutputKeepsDataset ==
  [][InLoop("output") =>
       /\ current_data' = current_data
       /\ data' = data
       /\ pc' = "blocks" =>
            /\ pos' = pos + 1
            /\ Len(executed_steps') > Len(executed_steps)
            /\ SubSeq(executed_steps', 1, Len(executed_steps)) = executed_steps
            /\ executed_steps'[Len(executed_steps) + 1].id = CurrentBlock.block_id]_vars

C20_Witness ==
  /\ pc = "blocks"
  /\ executed_steps # <<>>
  /\ Last(executed_steps).text = "Saved final dataset"
  /\ current_data = Frame(SrcRows - DropN, SrcCols)
  /\ data = current_data

\* C21: the content kept for a loaded source block is at all times the
\* content read from its file, and the step that runs an input_source block
\* makes that content the current dataset of the run and of the orchestrator,
\* whatever earlier destinations did, without changing what is kept.
C21_SourceContentKept ==
  /\ [](\A id \in DOMAIN pipeline_sources :
          pipeline_sources[id] = ReadFile(block_map[id].csv_source))
  /\ [][InLoop("input_source") =>
          /\ current_data' = ReadFile(CurrentBlock.csv_source)
          /\ data' = ReadFile(CurrentBlock.csv_source)
          /\ pipeline_sources' = pipeline_sources]_vars

C21_Witness ==
  /\ pc = "blocks"
  /\ dest_index = 2
  /\ pos = 2
  /\ dataOwner = dest_id
  /\ current_data = ReadFile("x.csv")
  /\ \E i \in DOMAIN transformation_history :
       transformation_history[i].result.exec_status = "success"

\* C22: both histories are append-only: every record present in
\* transformation_history or execution_history is still there, unchanged,
\* after every step.
C22_HistoriesAppendOnly ==
  [][/\ \A i \in DOMAIN transformation_history :
          /\ i \in DOMAIN transformation_history'
          /\ transformation_history'[i] = transformation_history[i]
     /\ \A i \in DOMAIN execution_history :
          /\ i \in DOMAIN execution_history'
          /\ execution_history'[i] = execution_history[i]]_vars

\* ----- the error taxonomy, read off the error text of a failure object
\* structural, load and gateway errors
NothingExecutedErrors ==
  {"Invalid blocks format", "Each block must have a 'block_id'",
   "Each block must have a 'block_type'", "Duplicate block_id found",
   "Unknown block_type", "Block referenced but not found",
   "Cyclic dependencies detected in pipeline",
   "input_source block requires 'csv_source' field", "Input file not found",
   "API call failed", "AI provider not configured"}

\* script faults and side-effect errors
PartialExecutionErrors ==
  {"Code execution failed: SyntaxError", "Code execution failed: KeyError",
   "Code execution failed: AttributeError", "Code execution failed: OSError",
   "Library not installed", "Failed to save final dataset for output block"}

\* a transform of this call has replaced the orchestrator's dataset
DatasetMutated ==
  \E i \in DOMAIN transformation_history :
    transformation_history[i].result.exec_status = "success"

\* C23: the failure object tells the two situations apart: one that reports a
\* structural, load or gateway error is returned only when no transform has
\* replaced the dataset and no file was written, and one that reports a
\* script fault or a side-effect error only when some block was executed.
C23_FailureTellsWhetherExecuted ==
  (pc = "done" /\ "error" \in ret.keys) =>
    /\ ret.error.msg \in NothingExecutedErrors =>
         ~DatasetMutated /\ effects = {}
    /\ ret.error.msg \in PartialExecutionErrors => executed # {}

\* The steps of execute_pipeline other than the order resolution
Running ==
  \/ StartPipeline
  \/ LoadSource
  \/ RunProcess
  \/ \E resp \in GatewayResponses, saveOk \in BOOLEAN : Attempt(resp, saveOk)
  \/ ProcessReturn
  \/ \E saveOk \in BOOLEAN : RunOutput(saveOk)
  \/ RunVisualization
  \/ PassDestination
  \/ RecordHistory
  \/ \E writeOk \in BOOLEAN, sent \in BOOLEAN : Deliver(writeOk, sent)
  \/ ReturnSuccess

\* ENABLED <<ResolveDestination>>_vars: the action's guard; every branch
\* under the guard assigns pc a value other than "dest"
ResolvePending == pc = "dest" /\ dest_index <= Len(destination_blocks)

\* execute_pipeline is one sequential call: whenever a step of it can be
\* taken (every gateway call and every script execution returns), one is.
\* The last conjunct is WF_vars(ResolveDestination) with ENABLED written out.
SpecFair ==
  /\ InitPipeline
  /\ [][Next]_vars
  /\ WF_vars(Running)
  /\ ([]<>(~ResolvePending) \/ []<><<ResolveDestination>>_vars)

\* C24: every call of execute_pipeline eventually returns, with a success
\* result or with a failure result.
C24_CallTerminates ==
  <>(/\ pc = "done"
     /\ \/ "error" \in ret.keys
        \/ ret.status = "success")

C24_Witness ==
  /\ pc = "done"
  /\ "error" \in ret.keys
  /\ transformation_history # <<>>
  /\ Last(transformation_history).final_status = "failed"
  /\ Last(transformation_history).attempts = max_retry_attempts + 1

\* ------------------------------------------- order resolution on its own
\* The number of blocks of a generated submission
GraphSize == 3

RECURSIVE Ascending(_)
Ascending(S) ==
  IF S = {} THEN <<>>
  ELSE LET m == CHOOSE x \in S : \A y \in S : x <= y
       IN <<m>> \o Ascending(S \ {m})

\* a pre_req list naming the ids S: as they are, with the first of them a
\* second time at the end, or followed by an id that no block has
Listing(S, variant) ==
  IF variant = "twice" /\ S # {} THEN Append(Ascending(S), Ascending(S)[1])
  ELSE IF variant = "dangling" THEN Append(Ascending(S), GraphSize + 1)
  ELSE Ascending(S)

\* Every prerequisite relation over GraphSize blocks, cycles and
\* self-references included: transforms 1..GraphSize-1 and the destination,
\* which alone can list the id that no block has
GraphSubmissions ==
  {List([i \in 1..GraphSize |->
           IF i = GraphSize THEN Dest(i, Listing(pre[i], variant))
           ELSE Proc(i, Listing(pre[i], IF variant = "twice" THEN variant ELSE "plain"),
                     "drop null rows")]) :
     pre \in [1..GraphSize -> SUBSET (1..GraphSize)],
     variant \in {"plain", "twice", "dangling"}}

InitResolve ==
  /\ InitOrchestrator(DefaultMaxRetry, FALSE, TRUE)
  /\ pc = "start"
  /\ blocks_json \in GraphSubmissions
  /\ block_map = <<>>
  /\ pipeline_sources = <<>>
  /\ execution_history = <<>>
  /\ destination_blocks = <<>>
  /\ results = <<>>
  /\ dest_index = 1
  /\ dest_id = 0
  /\ execution_order = <<>>
  /\ pos = 1
  /\ current_data = NoData
  /\ executed_steps = <<>>
  /\ final_cleaned_file = FALSE
  /\ ret = NoRet
  /\ executed = {}
  /\ effects = {}
  /\ totalGen = 0
  /\ dataOwner = 0

\* execute_pipeline up to the first block of the destination's order
NextResolve ==
  \/ StartPipeline
  \/ ResolveDestination

SpecResolve == InitResolve /\ [][NextResolve]_vars

\* the block of the submission with this id
SubBlock(id) == SubBlocks[CHOOSE i \in DOMAIN SubBlocks : SubBlocks[i].block_id = id]

\* C25: an execution order that _topological_sort emits holds every block of
\* the destination's closure exactly once and no other block, and every
\* prerequisite of a block stands before the block in it, also when a
\* pre_req list names a prerequisite twice.
C25_OrderRespectsPrerequisites ==
  (pc = "blocks") =>
    /\ \A b \in Closure(dest_id) :
         Cardinality({k \in DOMAIN execution_order : execution_order[k] = b}) = 1
    /\ \A k \in DOMAIN execution_order : execution_order[k] \in Closure(dest_id)
    /\ \A k \in DOMAIN execution_order :
         \A p \in Prereqs(SubBlock(execution_order[k])) :
           \E j \in 1..(k - 1) : execution_order[j] = p

C25_Witness ==
  /\ pc = "blocks"
  /\ Len(execution_order) >= 3
  /\ \E i \in DOMAIN SubBlocks :
       /\ Cardinality(Prereqs(SubBlocks[i])) >= 2
       /\ Len(SubBlocks[i].pre_req) > Cardinality(Prereqs(SubBlocks[i]))

\* C26: _get_dependency_chain returns an error exactly when a block reached
\* from the destination lists an id that no block has; otherwise it returns
\* the destination and every block reachable from it through pre_req, each
\* once and no other, whether or not the relation has a cycle or a block
\* lists itself.
C26_ChainIsBackwardClosure ==
  (pc = "dest" /\ dest_index <= Len(destination_blocks)) =>
    LET dest == destination_blocks[dest_index].block_id
        c == _get_dependency_chain(block_map, destination_blocks[dest_index])
    IN /\ c.err <=> \E b \in Closure(dest) : b \notin SubIds
       /\ ~c.err =>
            /\ {c.chain[k] : k \in DOMAIN c.chain} = Closure(dest)
            /\ Len(c.chain) = Cardinality(Closure(dest))

C26_Witness ==
  /\ pc = "done"
  /\ ret.error.msg = "Cyclic dependencies detected in pipeline"
  /\ Closure(dest_id) = SubIds
  /\ \E i \in DOMAIN SubBlocks : SubBlocks[i].block_id \in Prereqs(SubBlocks[i])
  /\ \E i, j \in DOMAIN SubBlocks :
       /\ i # j
       /\ SubBlocks[i].block_id \in Prereqs(SubBlocks[j])
       /\ SubBlocks[j].block_id \in Prereqs(SubBlocks[i])

\* C27: when an attempt ends in a script fault and another attempt follows,
\* the prompt held for the next generation call is the error-recovery prompt
\* made of the original instruction, the script of the attempt that just
\* failed and the fault that attempt reported.
C27_RetryUsesRecoveryPrompt ==
  [][(/\ opc = "attempt" /\ opc' = "attempt"
      /\ attempt' = attempt + 1
      /\ Len(attemptLog') = Len(attemptLog) + 1
      /\ Last(attemptLog').outcome = "script_fault") =>
       /\ orchestration_prompt'.kind = "recovery"
       /\ orchestration_prompt'.request = oprompt
       /\ orchestration_prompt'.failed_code = cleaned_response'.code
       /\ \E saveOk \in BOOLEAN :
            orchestration_prompt'.error_message =
              _execute_transformation(cleaned_response', data, script_only_mode,
                                      attempt, saveOk).result.exec_error]_vars

\* C28: within the run of one destination, once a transform has succeeded, no
\* step other than a transform changes the current dataset: every later
\* block, and the delivery that builds the final preview, works on what the
\* most recent successful transform produced.
C28_DatasetFlowsLinearly ==
  [][(/\ pc \in {"blocks", "deliver"}
      /\ \E k \in DOMAIN executed_steps : executed_steps[k].text = "Block") =>
       current_data' = current_data]_vars

\* C29: when the run of a chain of one source, transforms and one destination
\* (no output block) has ended after the destination's history entry was
\* recorded, executed_steps of that entry is the source load followed by one
\* entry per transform, in execution order, and nothing else.
C29_StepHistoryOfChain ==
  (pc = "done" /\ IsSimpleChain /\ execution_history # <<>>) =>
    LET steps == Last(execution_history).executed_steps
    IN /\ Len(steps) = Len(SubBlocks) - 1
       /\ steps[1].text = "Loaded input source"
       /\ steps[1].id = SubBlocks[1].block_id
       /\ \A k \in 2..Len(steps) :
            steps[k].text = "Block" /\ steps[k].id = SubBlocks[k].block_id

\* --------------------------------------- the contextual prompt builders
\* The longest step history a prompt is built over
MaxSteps == 7

\* "last = history[-5:]"
LastSteps == 5

\* "info.get("explanation") or info.get("type") or """: the description of
\* a history item is the one its recommendation carried, which the script it
\* generated stands for here
Explanation(item) == item.result.code_generated

OrchestratorCLI_build_renumbered(user_prompt, history) ==
  IF history = <<>> THEN RawPrompt(user_prompt)
  ELSE LET n == Len(history)
           last == IF n > LastSteps THEN SubSeq(history, n - LastSteps + 1, n) ELSE history
       IN [kind |-> "contextual",
           steps |-> [k \in 1..Len(last) |-> [index |-> k, step |-> Explanation(last[k])]],
           sources |-> <<>>, request |-> user_prompt]

\* OrchestratorCLI._build_contextual_prompt
OrchestratorCLI_build_contextual_prompt(user_prompt, history) ==
  IF history = <<>> THEN RawPrompt(user_prompt)
  ELSE LET n == Len(history)
           last == IF n > LastSteps THEN SubSeq(history, n - LastSteps + 1, n) ELSE history
           base_idx == n - Len(last) + 1
       IN [kind |-> "contextual",
           steps |-> [k \in 1..Len(last) |->
                        [index |-> base_idx + k - 1, step |-> Explanation(last[k])]],
           sources |-> <<>>, request |-> user_prompt]

\* The scripts of the successful transforms of a session, oldest first
SessionScripts == UNION {[1..n -> {"drop_rows", "add_col"}] : n \in 0..MaxSteps}

\* transformation_history after these transforms
HistoryOf(scripts) ==
  [k \in 1..Len(scripts) |->
     StepRecord(RawPrompt("clean missing values"),
                Response("rec", scripts[k], FALSE, FALSE),
                ExecResult(scripts[k], "success", "", 1), 1, FALSE, "absent")]

\* executed_steps of a destination after a source load and n - 1 transforms
StepsOf(n) ==
  [k \in 1..n |-> IF k = 1 THEN Step("Loaded input source", 1, "")
                  ELSE Step("Block", k, "drop null rows")]

\* A session, or a destination's run, that has come to its next transform
InitPrompt ==
  /\ \E scripts \in SessionScripts :
       /\ transformation_history = HistoryOf(scripts)
       /\ executed_steps = StepsOf(Len(scripts))
  /\ data = ReadFile("x.csv")
  /\ goodData = ReadFile("x.csv")
  /\ max_retry_attempts = DefaultMaxRetry
  /\ script_only_mode = FALSE
  /\ configured = TRUE
  /\ opc = "idle"
  /\ attempt = 0
  /\ oprompt = RawPrompt("")
  /\ orchestration_prompt = Unbound
  /\ cleaned_response = NoResponse
  /\ oresult = NoResult
  /\ genCalls = 0
  /\ attemptLog = <<>>
  /\ callData = NoData
  /\ callHist = 0
  /\ calls = 0
  /\ pc = "prompt"
  /\ blocks_json = [format |-> "other", blocks |-> <<>>]
  /\ block_map = <<>>
  /\ pipeline_sources = (1 :> ReadFile("x.csv"))
  /\ execution_history = <<>>
  /\ destination_blocks = <<>>
  /\ results = <<>>
  /\ dest_index = 1
  /\ dest_id = 0
  /\ execution_order = <<>>
  /\ pos = 1
  /\ current_data = NoData
  /\ final_cleaned_file = FALSE
  /\ ret = NoRet
  /\ executed = {}
  /\ effects = {}
  /\ totalGen = 0
  /\ dataOwner = 0

\* "contextual_prompt = self._build_contextual_prompt(prompt, executed_steps)"
BatchBuild(p) ==
  /\ pc = "prompt"
  /\ pc' = "batch"
  /\ oprompt' = _build_contextual_prompt(p, executed_steps, <<1>>)
  /\ UNCHANGED <<data, transformation_history, max_retry_attempts, script_only_mode,
                 configured, opc, attempt, orchestration_prompt, cleaned_response,
                 oresult, genCalls, attemptLog, callData, callHist, goodData, calls>>
  /\ UNCHANGED <<blocks_json, block_map, pipeline_sources, execution_history,
                 destination_blocks, results, dest_index, dest_id, execution_order,
                 pos, current_data, executed_steps, final_cleaned_file, ret,
                 executed, effects, totalGen, dataOwner>>

\* "contextual_prompt = self._build_contextual_prompt(args)"
CliBuild(p) ==
  /\ pc = "prompt"
  /\ pc' = "cli"
  /\ oprompt' = OrchestratorCLI_build_contextual_prompt(p, transformation_history)
  /\ UNCHANGED <<data, transformation_history, max_retry_attempts, script_only_mode,
                 configured, opc, attempt, orchestration_prompt, cleaned_response,
                 oresult, genCalls, attemptLog, callData, callHist, goodData, calls>>
  /\ UNCHANGED <<blocks_json, block_map, pipeline_sources, execution_history,
                 destination_blocks, results, dest_index, dest_id, execution_order,
                 pos, current_data, executed_steps, final_cleaned_file, ret,
                 executed, effects, totalGen, dataOwner>>

NextPrompt ==
  \/ BatchBuild("drop null rows")
  \/ CliBuild("drop null rows")

SpecPrompt == InitPrompt /\ [][NextPrompt]_vars

\* the smaller of two numbers
Min(a, b) == IF a < b THEN a ELSE b

\* C30, as stated: the prompt either builder returns lists the last 5 prior
\* steps at most, oldest first, each under its position in the whole step
\* history, and then the current instruction.
C30_LastFiveInBothBuilders ==
  /\ (pc = "batch") =>
       /\ oprompt.request = "drop null rows"
       /\ Len(oprompt.steps) = Min(Len(executed_steps), 5)
       /\ \A k \in DOMAIN oprompt.steps :
            /\ oprompt.steps[k].index = Len(executed_steps) - Len(oprompt.steps) + k
            /\ oprompt.steps[k].step = executed_steps[oprompt.steps[k].index]
  /\ (pc = "cli") =>
       /\ oprompt.request = "drop null rows"
       /\ Len(oprompt.steps) = Min(Len(transformation_history), 5)
       /\ \A k \in DOMAIN oprompt.steps :
            /\ oprompt.steps[k].index = Len(transformation_history) - Len(oprompt.steps) + k
            /\ oprompt.steps[k].step =
                 Explanation(transformation_history[oprompt.steps[k].index])

\* C30, amended: the interactive builder lists the last 5 prior steps at
\* most, oldest first, each under its position in the whole history; the
\* batch builder lists every prior step of the destination's run, oldest
\* first, numbered from 1; both end with the current instruction.
C30_BuildersListPriorSteps ==
  /\ (pc = "batch") =>
       /\ oprompt.request = "drop null rows"
       /\ Len(oprompt.steps) = Len(executed_steps)
       /\ \A k \in DOMAIN oprompt.steps :
            /\ oprompt.steps[k].index = k
            /\ oprompt.steps[k].step = executed_steps[k]
  /\ (pc = "cli") =>
       /\ oprompt.request = "drop null rows"
       /\ Len(oprompt.steps) = Min(Len(transformation_history), 5)
       /\ \A k \in DOMAIN oprompt.steps :
            /\ oprompt.steps[k].index = Len(transformation_history) - Len(oprompt.steps) + k
            /\ oprompt.steps[k].step =
                 Explanation(transformation_history[oprompt.steps[k].index])

C30_Witness ==
  /\ pc = "cli"
  /\ Len(transformation_history) = 7
  /\ Len(oprompt.steps) = 5
  /\ oprompt.steps[1].index = 3

\* C31, as stated: with no prior steps, the prompt either builder returns is
\* the instruction together with the identifiers of the available sources.
C31_InstructionPlusSourcesInBothBuilders ==
  /\ (pc = "batch" /\ executed_steps = <<>>) =>
       /\ oprompt.request = "drop null rows"
       /\ oprompt.steps = <<>>
       /\ oprompt.sources = Ascending(DOMAIN pipeline_sources)
  /\ (pc = "cli" /\ transformation_history = <<>>) =>
       /\ oprompt.request = "drop null rows"
       /\ oprompt.steps = <<>>
       /\ oprompt.sources = Ascending(DOMAIN pipeline_sources)

\* C31, amended: with no prior steps, the batch builder returns the
\* instruction together with the identifiers of the available sources, and
\* the interactive builder returns the instruction alone.
C31_FirstPromptOfEachBuilder ==
  /\ (pc = "batch" /\ executed_steps = <<>>) =>
       /\ oprompt.request = "drop null rows"
       /\ oprompt.steps = <<>>
       /\ oprompt.sources = Ascending(DOMAIN pipeline_sources)
  /\ (pc = "cli" /\ transformation_history = <<>>) =>
       /\ oprompt.request = "drop null rows"
       /\ oprompt.steps = <<>>
       /\ oprompt.sources = <<>>

C31_Witness ==
  /\ pc = "batch"
  /\ executed_steps = <<>>
  /\ oprompt.sources = <<1>>
  /\ oprompt.request = "drop null rows"

\* C32: whatever the gateway and the scripts do, raised exceptions included,
\* a call of orchestrate_transformation never makes more than
\* max_retry_attempts + 1 generation calls, its loop never goes past
\* iteration max_retry_attempts, and that iteration ends the call.
C32_GenerationCallsBounded ==
  /\ [](/\ genCalls <= max_retry_attempts + 1
        /\ attempt <= max_retry_attempts
        /\ Len(attemptLog) <= max_retry_attempts + 1)
  /\ [][(opc = "attempt" /\ attempt = max_retry_attempts) => opc' = "returned"]_vars

C32_Witness ==
  /\ opc = "returned"
  /\ max_retry_attempts = DefaultMaxRetry
  /\ genCalls = max_retry_attempts + 1
  /\ AllOutcomes("gw_raise")
  /\ oresult.has_error

\* C33: a call of orchestrate_transformation appends at most one record to
\* transformation_history; a call that returns an error object (a gateway
\* error, "No dataset loaded", "AI provider not configured") has appended
\* none; and a call entered without a dataset or without a configured
\* provider returns that error at once, without a generation call.
C33_AtMostOneRecordPerCall ==
  (opc \in {"attempt", "returned"}) =>
    /\ Len(transformation_history) <= callHist + 1
    /\ (opc = "attempt") => Len(transformation_history) = callHist
    /\ (opc = "returned" /\ oresult.has_error) => Len(transformation_history) = callHist
    /\ (callData = NoData) =>
         /\ opc = "returned" /\ oresult.error = "No dataset loaded"
         /\ genCalls = 0 /\ Len(transformation_history) = callHist
    /\ (callData # NoData /\ ~configured) =>
         /\ opc = "returned" /\ oresult.error = "AI provider not configured"
         /\ genCalls = 0 /\ Len(transformation_history) = callHist

C33_Witness ==
  /\ opc = "returned"
  /\ oresult.error = "API call failed"
  /\ Len(attemptLog) >= 2
  /\ attemptLog[1].outcome = "script_fault"
  /\ Len(transformation_history) = callHist

\* C34: the step taken at a process block whose prompt is empty or blanks
\* only moves on to the next block of the order and changes nothing else: no
\* generation call, the same dataset, no step recorded, no history record.
C34_BlankPromptSkipped ==
  [][(/\ pc = "blocks" /\ pos <= Len(execution_order)
      /\ CurrentBlock.block_type = "process"
      /\ CurrentBlock.prompt \in {"", " ", "   "}) =>
       /\ pc' = "blocks"
       /\ pos' = pos + 1
       /\ execution_order' = execution_order
       /\ current_data' = current_data
       /\ data' = data
       /\ executed_steps' = executed_steps
       /\ transformation_history' = transformation_history
       /\ genCalls' = genCalls /\ totalGen' = totalGen
       /\ opc' = opc /\ ret' = ret]_vars

C34_Witness ==
  /\ pc = "blocks"
  /\ pos = 4
  /\ block_map[execution_order[2]].prompt = "   "
  /\ TransformSucceeded(execution_order[3])
  /\ Len(executed_steps) = 2
  /\ Len(transformation_history) = 1

\* The submission parses, its ids are distinct and its types known, and every
\* source names a file that can be read.
WellFormedSubmission ==
  /\ blocks_json.format \in {"list", "dict"}
  /\ \A i \in DOMAIN SubBlocks :
       /\ {"block_id", "block_type"} \subseteq SubBlocks[i].keys
       /\ SubBlocks[i].block_type \in {"input_source", "process", "output",
                                       "destination", "visualization"}
       /\ \A j \in DOMAIN SubBlocks : i # j => SubBlocks[i].block_id # SubBlocks[j].block_id
       /\ SubBlocks[i].block_type = "input_source" => SubBlocks[i].csv_source \in Files

NoDestinationBlock ==
  \A i \in DOMAIN SubBlocks : SubBlocks[i].block_type # "destination"

\* C35: for a well-formed submission without a destination block no
\* generation call is made, no block is executed and nothing is sent at any
\* point of the run, and the value execute_pipeline returns has status
\* success, an empty results list and destinations_processed = 0.
C35_NoDestinationNoWork ==
  (WellFormedSubmission /\ NoDestinationBlock) =>
    /\ NothingExecuted
    /\ genCalls = 0
    /\ opc = "idle"
    /\ pc = "done" =>
         /\ ret.keys = {"status", "destinations_processed", "results", "execution_history"}
         /\ ret.status = "success"
         /\ ret.results = <<>>
         /\ ret.destinations_processed = 0
         /\ execution_history = <<>>

C35_Witness ==
  /\ pc = "done"
  /\ WellFormedSubmission /\ NoDestinationBlock
  /\ \E i \in DOMAIN SubBlocks : SubBlocks[i].block_type = "process"
  /\ DOMAIN pipeline_sources = {1}
  /\ ret.status = "success" /\ ret.destinations_processed = 0

\* C36: whenever an execution order has been produced for a destination, the
\* order is not empty, its last element is that destination block, and the
\* destination occurs nowhere else in it.
C36_DestinationLast ==
  (pc = "blocks") =>
    /\ execution_order # <<>>
    /\ dest_id = destination_blocks[dest_index].block_id
    /\ SubBlock(dest_id).block_type = "destination"
    /\ execution_order[Len(execution_order)] = dest_id
    /\ \A i \in 1..(Len(execution_order) - 1) : execution_order[i] # dest_id

C36_Witness ==
  /\ pc = "blocks"
  /\ execution_order = <<2, 1, GraphSize>>
  /\ dest_id = GraphSize
  /\ SubBlock(GraphSize).pre_req = <<1, 2, 1>>

\* C37: execute_pipeline always ends by returning a value: until it returns
\* there is none, and the value returned, whatever the submission and whatever
\* fault a block raised, either has the key 'error' or has status 'success',
\* and never both.
C37_ReturnsErrorOrSuccess ==
  /\ pc \in {"start", "dest", "blocks", "orch", "history", "deliver", "done"}
  /\ pc # "done" => ret = NoRet
  /\ pc = "done" =>
       /\ ret.keys # {}
       /\ ("error" \in ret.keys) # ("status" \in ret.keys /\ ret.status = "success")
       /\ "error" \in ret.keys => (ret.error.msg # "" /\ "status" \notin ret.keys)
       /\ "error" \notin ret.keys => ret.destinations_processed = Len(destination_blocks)

C37_Witness ==
  /\ pc = "done"
  /\ ret.keys = {"error"}
  /\ ret.error.msg = "Pipeline execution failed"
  /\ execution_history # <<>>
  /\ executed # {}

\* ---------------------------------------- app.py: POST /blocks/execute
\* The route validates the blocks of the request body and reports counts; it
\* never runs the pipeline.  While it runs, blocks_json is the parsed body
\* ("data"), pos the position of "for i, block in enumerate(data)", results
\* the list processed_blocks, executed_steps the list errors and ret the
\* response; the orchestrator takes no step.

\* The longest array of a request body
MaxBlocks == 2

\* "valid_block_types = [...]"
valid_block_types == {"input_source", "process", "output", "destination"}

\* An element of the array that is not a JSON object
NotADict == [text |-> "not a block"]

IsDict(block) == "keys" \in DOMAIN block

\* The elements a request array is made of
RouteBlocks ==
  {Src(1, "x.csv"), Src(1, ""),
   Proc(2, <<1>>, "drop null rows"), Proc(2, <<1>>, ""),
   Out(3, <<2>>),
   DestMail(4, <<3>>), Dest(4, <<3>>),
   Block(1, "invalid_type", <<>>),
   [Proc(2, <<1>>, "drop null rows") EXCEPT !.keys = {"block_type"}],
   [Src(3, "x.csv") EXCEPT !.keys = {"block_id"}],
   NotADict}

\* request.get_json(): null, a JSON object, or an array of 0..MaxBlocks elements
Bodies ==
  {[format |-> "other", blocks |-> <<>>], [format |-> "dict", blocks |-> <<>>]}
  \cup UNION {{List(bs) : bs \in [1..n -> RouteBlocks]} : n \in 0..MaxBlocks}

\* "not data": None and the empty array are falsy, the object here is not empty
Falsy(body) == body.format = "other" \/ (body.format = "list" /\ body.blocks = <<>>)

NoReply ==
  [status_code |-> 0, keys |-> {}, error |-> "", success |-> FALSE, total_blocks |-> 0,
   processed_blocks |-> 0, failed_blocks |-> 0, blocks |-> <<>>, errors |-> <<>>]

\* jsonify({'error': msg}), code
ErrorReply(msg, code) == [NoReply EXCEPT !.status_code = code, !.keys = {"error"}, !.error = msg]

\* One pass of the loop body for the element at 0-based position i:
\* [valid, error], error being the text appended to errors when not valid
ValidateBlock(block, i) ==
  IF ~IsDict(block)
  THEN [valid |-> FALSE, error |-> Err("Error processing block", i)]
  ELSE IF "block_type" \notin block.keys \/ block.block_type = "" \/ "block_id" \notin block.keys
  THEN [valid |-> FALSE, error |-> Err("block_type and block_id are required", i)]
  ELSE IF block.block_type \notin valid_block_types
  THEN [valid |-> FALSE, error |-> Err("Invalid block_type", i)]
  ELSE IF block.block_type = "input_source" /\ block.csv_source = ""
  THEN [valid |-> FALSE,
        error |-> Err("csv_source is required for input_source blocks", block.block_id)]
  ELSE IF block.block_type = "process" /\ block.prompt = ""
  THEN [valid |-> FALSE, error |-> Err("prompt is required for process blocks", block.block_id)]
  ELSE IF block.block_type = "destination" /\ block.email_dest = ""
  THEN [valid |-> FALSE,
        error |-> Err("email_dest is required for destination blocks", block.block_id)]
  ELSE [valid |-> TRUE, error |-> Err("", 0)]

\* the entry appended to processed_blocks
ProcessedEntry(block) ==
  [block_id |-> block.block_id, block_type |-> block.block_type,
   status |-> "processed", pre_req |-> block.pre_req]

\* The server holds a request body and execute_blocks has not started
InitBlocks ==
  /\ InitOrchestrator(DefaultMaxRetry, FALSE, TRUE)
  /\ pc = "request"
  /\ blocks_json \in Bodies
  /\ block_map = <<>>
  /\ pipeline_sources = <<>>
  /\ execution_history = <<>>
  /\ destination_blocks = <<>>
  /\ results = <<>>
  /\ dest_index = 1
  /\ dest_id = 0
  /\ execution_order = <<>>
  /\ pos = 1
  /\ current_data = NoData
  /\ executed_steps = <<>>
  /\ final_cleaned_file = FALSE
  /\ ret = NoReply
  /\ executed = {}
  /\ effects = {}
  /\ totalGen = 0
  /\ dataOwner = 0

RouteUntouched ==
  <<block_map, pipeline_sources, execution_history, destination_blocks, dest_index,
    dest_id, execution_order, current_data, final_cleaned_file, executed, effects,
    totalGen, dataOwner>>

\* execute_blocks up to the loop: the three checks on the body
ReceiveBlocks ==
  /\ pc = "request"
  /\ IF Falsy(blocks_json)
     THEN /\ ret' = ErrorReply("No JSON data provided", 400)
          /\ pc' = "responded"
     ELSE IF blocks_json.format # "list"
     THEN /\ ret' = ErrorReply("Expected an array of block objects", 400)
          /\ pc' = "responded"
     ELSE IF Len(blocks_json.blocks) = 0
     THEN /\ ret' = ErrorReply("Empty blocks array provided", 400)
          /\ pc' = "responded"
     ELSE /\ pc' = "loop"
          /\ ret' = ret
  /\ UNCHANGED <<blocks_json, pos, results, executed_steps>>
  /\ UNCHANGED RouteUntouched
  /\ UNCHANGED ovars

\* one pass of "for i, block in enumerate(data)"
CheckBlock ==
  /\ pc = "loop"
  /\ pos <= Len(blocks_json.blocks)
  /\ LET block == blocks_json.blocks[pos]
         checked == ValidateBlock(block, pos - 1)
     IN IF checked.valid
        THEN /\ results' = Append(results, ProcessedEntry(block))
             /\ UNCHANGED executed_steps
        ELSE /\ executed_steps' = Append(executed_steps, checked.error)
             /\ UNCHANGED results
  /\ pos' = pos + 1
  /\ UNCHANGED <<pc, blocks_json, ret>>
  /\ UNCHANGED RouteUntouched
  /\ UNCHANGED ovars

\* "response = {...}" and the two returns after the loop
Respond ==
  /\ pc = "loop"
  /\ pos > Len(blocks_json.blocks)
  /\ ret' = [NoReply EXCEPT
               !.status_code = IF executed_steps # <<>> THEN 400 ELSE 200,
               !.keys = {"success", "total_blocks", "processed_blocks", "failed_blocks",
                         "blocks", "timestamp"}
                        \cup (IF executed_steps # <<>> THEN {"errors"} ELSE {"message"}),
               !.success = (Len(executed_steps) = 0),
               !.total_blocks = Len(blocks_json.blocks),
               !.processed_blocks = Len(results),
               !.failed_blocks = Len(executed_steps),
               !.blocks = results,
               !.errors = executed_steps]
  /\ pc' = "responded"
  /\ UNCHANGED <<blocks_json, pos, results, executed_steps>>
  /\ UNCHANGED RouteUntouched
  /\ UNCHANGED ovars

NextBlocks ==
  \/ ReceiveBlocks
  \/ CheckBlock
  \/ Respond

SpecBlocks == InitBlocks /\ [][NextBlocks]_vars

\* A block passes validation: it is an object with a block_id and one of the
\* four block types, and it has the field its type requires
PassesValidation(block) ==
  /\ IsDict(block)
  /\ {"block_id", "block_type"} \subseteq block.keys
  /\ block.block_type \in {"input_source", "process", "output", "destination"}
  /\ block.block_type = "input_source" => block.csv_source # ""
  /\ block.block_type = "process" => block.prompt # ""
  /\ block.block_type = "destination" => block.email_dest # ""

\* The response to a non-empty array reports success exactly when every
\* block passed validation, and counts each block once
NonEmptyArrayReport ==
  (pc = "responded" /\ blocks_json.format = "list" /\ blocks_json.blocks # <<>>) =>
    /\ "success" \in ret.keys
    /\ ret.success = (\A i \in DOMAIN blocks_json.blocks : PassesValidation(blocks_json.blocks[i]))
    /\ ret.total_blocks = Len(blocks_json.blocks)
    /\ ret.processed_blocks =
         Cardinality({i \in DOMAIN blocks_json.blocks : PassesValidation(blocks_json.blocks[i])})
    /\ ret.processed_blocks + ret.failed_blocks = ret.total_blocks
    /\ ret.status_code = IF ret.success THEN 200 ELSE 400

\* C38: POST /blocks/execute answers a non-empty array with success exactly
\* when every block passed validation and with processed_blocks +
\* failed_blocks = total_blocks, and it rejects an empty array with status 400
\* and the error 'Empty blocks array provided'.
C38_BlocksRouteReport ==
  /\ NonEmptyArrayReport
  /\ (pc = "responded" /\ blocks_json.format = "list" /\ blocks_json.blocks = <<>>) =>
       /\ ret.status_code = 400
       /\ ret.keys = {"error"}
       /\ ret.error = "Empty blocks array provided"

====
